---------------------------- MODULE Spec2Model ----------------------------
(***************************************************************************)
(* Model of the cell-mapping extraction engine of the B&R underwriting     *)
(* dashboard: ErrorHandler (error_handling_system.py), and                 *)
(* ExcelDataExtractor / BatchFileProcessor (excel_extraction_system.py).   *)
(*                                                                         *)
(* Text (cell values, cell addresses) is a sequence of one-character       *)
(* strings, so that strip(), lower(), upper(), replace() and the `in`      *)
(* substring test are computed and not assumed.  A cell value is a record  *)
(* [kind, val]; np.nan, the missing marker, is the value NaN.              *)
(***************************************************************************)
EXTENDS Integers, Sequences, FiniteSets, TLC

VARIABLES
    errors,             \* ErrorHandler.errors of the extractor's handler
    error_counts,       \* ErrorHandler.error_counts
    calls,              \* number of direct calls made so far (SpecCell)
    lastCall,           \* history: the last direct call and what it returned
    task,               \* per submitted workbook: the worker's progress
    processed_results,  \* process_files: the records collected so far
    failed_files,       \* process_files: the failed-file entries so far
    batch_start,        \* process_files: first index of the current group
    pfpc,               \* process_files: position of the main thread
    handles,            \* workbook container handles that are open
    errorOwner,         \* history: for each entry of errors, the task that logged it
    file_list,          \* the batch's workbook descriptors, in order
    mappings,           \* ExcelDataExtractor.mappings, in table order
    batch_size,         \* BatchFileProcessor.batch_size
    max_workers,        \* process_files' max_workers
    parser,             \* CellMappingParser: the reference file and self.mappings
    mainpc,             \* main(): its position
    is_monitoring,      \* DeltaMonitorService.is_monitoring
    monitor_thread,     \* DeltaMonitorService.monitor_thread: the latest loop thread, or 0
    loops,              \* per _monitor_loop thread started: its position
    monitorpc           \* the caller of start_monitoring / stop_monitoring: its position

vars == <<errors, error_counts, calls, lastCall, task, processed_results,
          failed_files, batch_start, pfpc, handles, errorOwner, file_list,
          mappings, batch_size, max_workers, parser, mainpc,
          is_monitoring, monitor_thread, loops, monitorpc>>

-----------------------------------------------------------------------------
(* Text *)

UC == <<"A","B","C","D","E","F","G","H","I","J","K","L","M",
        "N","O","P","Q","R","S","T","U","V","W","X","Y","Z">>

LC == <<"a","b","c","d","e","f","g","h","i","j","k","l","m",
        "n","o","p","q","r","s","t","u","v","w","x","y","z">>

DIGITS == <<"0","1","2","3","4","5","6","7","8","9">>

WHITESPACE == {" ", "\t", "\n"}

Range(s) == {s[i] : i \in 1..Len(s)}

IndexIn(s, c) == CHOOSE i \in 1..Len(s) : s[i] = c

\* str.upper() and str.lower(), one character at a time
UpperChar(c) == IF c \in Range(LC) THEN UC[IndexIn(LC, c)] ELSE c

LowerChar(c) == IF c \in Range(UC) THEN LC[IndexIn(UC, c)] ELSE c

Upper(s) == [i \in 1..Len(s) |-> UpperChar(s[i])]

Lower(s) == [i \in 1..Len(s) |-> LowerChar(s[i])]

\* str.strip(): drop the leading and the trailing whitespace
Strip(s) ==
    LET keep == {i \in 1..Len(s) : s[i] \notin WHITESPACE}
    IN  IF keep = {} THEN <<>>
        ELSE LET lo == CHOOSE i \in keep : \A j \in keep : i <= j
                 hi == CHOOSE i \in keep : \A j \in keep : i >= j
             IN  SubSeq(s, lo, hi)

\* sub in s
Contains(s, sub) ==
    \E i \in 0..(Len(s) - Len(sub)) : SubSeq(s, i + 1, i + Len(sub)) = sub

\* s.replace(c, '')
RemoveChar(s, c) == SelectSeq(s, LAMBDA x : x # c)

-----------------------------------------------------------------------------
(* Cell values *)

\* np.nan: the missing marker, and also a raw float NaN read from a cell
NaN == [kind |-> "nan", val |-> 0]

None == [kind |-> "none", val |-> 0]

Inf == [kind |-> "inf", val |-> 0]

Str(s) == [kind |-> "str", val |-> s]

Num(n) == [kind |-> "num", val |-> n]

Bool(b) == [kind |-> "bool", val |-> b]

DateTime(d) == [kind |-> "datetime", val |-> d]

\* a value of another type (datetime.time, datetime.date, ...); raises says
\* whether str(value) raises
Other(id, raises) == [kind |-> "other", val |-> id, raises |-> raises]

\* a Python int that does not fit in 64 bits (val is not its magnitude)
BigInt == [kind |-> "bigint", val |-> 0]

\* f"{value}": object.__format__ is str(value), so formatting a value of another
\* type raises whenever its str() raises
FormatRaises(v) == v.kind = "other" /\ v.raises

\* str(value) of a value of another type
StrOf(v) == Str(<<"o", DIGITS[v.val + 1]>>)

-----------------------------------------------------------------------------
(* ErrorHandler *)

ErrorCategory ==
    {"missing_sheet", "invalid_cell_address", "cell_not_found", "formula_error",
     "data_type_error", "empty_value", "file_access_error", "parsing_error",
     "unknown_error"}

NA == <<"N", "/", "A">>

\* The handler's state as a value: the operators below take one and return one.
Handler(errs, counts) == [errors |-> errs, error_counts |-> counts]

\* ErrorHandler.__init__
NewHandler == Handler(<<>>, [c \in ErrorCategory |-> 0])

ExtractionError(category, field_name, sheet_name, cell_address, msg, size) ==
    [category |-> category, field_name |-> field_name, sheet_name |-> sheet_name,
     cell_address |-> cell_address, error_message |-> msg, sheet_size |-> size]

\* _log_error with the counter update left out
LogErrorNoCount(h, error) == Handler(Append(h.errors, error), h.error_counts)

\* ErrorHandler._log_error
LogError(h, error) ==
    Handler(Append(h.errors, error),
            [h.error_counts EXCEPT ![error.category] = @ + 1])

\* What a handle_* method or process_cell_value hands back: the handler after
\* the call and the returned value.
Ret(h, value) == [h |-> h, value |-> value, raised |-> FALSE, error_msg |-> <<>>]

\* An exception leaves a handle_* method or process_cell_value; error_msg is
\* its str(e).
Raise(h, error_msg) == [h |-> h, value |-> NaN, raised |-> TRUE, error_msg |-> error_msg]

handle_missing_sheet(h, field_name, sheet_name) ==
    Ret(LogError(h, ExtractionError("missing_sheet", field_name, sheet_name, NA,
                                    <<"Sheet not found in workbook", sheet_name>>, <<>>)),
        NaN)

handle_invalid_cell_address(h, field_name, sheet_name, cell_address, error_msg) ==
    Ret(LogError(h, ExtractionError("invalid_cell_address", field_name, sheet_name,
                                    cell_address,
                                    <<"Invalid cell address format">> \o error_msg, <<>>)),
        NaN)

\* a CellNotFound record without the extent of the scan
handle_cell_not_found_no_extent(h, field_name, sheet_name, cell_address, sheet_size) ==
    Ret(LogError(h, ExtractionError("cell_not_found", field_name, sheet_name,
                                    cell_address,
                                    <<"Cell">> \o cell_address
                                        \o <<"not found or outside sheet bounds">>,
                                    <<>>)),
        NaN)

handle_cell_not_found(h, field_name, sheet_name, cell_address, sheet_size) ==
    Ret(LogError(h, ExtractionError("cell_not_found", field_name, sheet_name,
                                    cell_address,
                                    <<"Cell">> \o cell_address
                                        \o <<"not found or outside sheet bounds">>,
                                    sheet_size)),
        NaN)

handle_formula_error(h, field_name, sheet_name, cell_address, formula_error) ==
    Ret(LogError(h, ExtractionError("formula_error", field_name, sheet_name,
                                    cell_address, <<"Formula error">> \o formula_error,
                                    <<>>)),
        NaN)

\* the message is built with f"Cannot convert '{value}' to {expected_type}"
\* before anything is logged
handle_data_type_error(h, field_name, sheet_name, cell_address, value, expected_type) ==
    IF FormatRaises(value)
    THEN Raise(h, <<"str(value) raised">>)
    ELSE Ret(LogError(h, ExtractionError("data_type_error", field_name, sheet_name,
                                         cell_address,
                                         <<"Cannot convert">> \o StrOf(value).val
                                             \o <<"to", expected_type>>,
                                         <<>>)),
             NaN)

handle_empty_value(h, field_name, sheet_name, cell_address, treat_as_error) ==
    IF treat_as_error
    THEN Ret(LogError(h, ExtractionError("empty_value", field_name, sheet_name,
                                         cell_address,
                                         <<"Cell is empty or contains null value">>,
                                         <<>>)),
             NaN)
    ELSE Ret(h, NaN)

handle_parsing_error(h, field_name, sheet_name, cell_address, error_msg) ==
    Ret(LogError(h, ExtractionError("parsing_error", field_name, sheet_name,
                                    cell_address, <<"Parsing error">> \o error_msg, <<>>)),
        NaN)

handle_file_access_error(h, field_name, error_msg) ==
    Ret(LogError(h, ExtractionError("file_access_error", field_name, "N/A", NA,
                                    <<"File access error">> \o error_msg, <<>>)),
        NaN)

handle_unknown_error(h, field_name, sheet_name, cell_address, error_msg) ==
    Ret(LogError(h, ExtractionError("unknown_error", field_name, sheet_name,
                                    cell_address, <<"Unexpected error">> \o error_msg,
                                    <<>>)),
        NaN)

\* process_cell_value's excel_errors, in the order of the list
excel_errors ==
    << <<"#","R","E","F","!">>, <<"#","V","A","L","U","E","!">>,
       <<"#","D","I","V","/","0","!">>, <<"#","N","A","M","E","?">>,
       <<"#","N","/","A">>, <<"#","N","U","L","L","!">>, <<"#","N","U","M","!">> >>

\* process_cell_value's missing_indicators
missing_indicators ==
    { <<"n","/","a">>, <<"n","a">>, <<"n","u","l","l">>, <<"n","o","n","e">>,
      <<>>, <<"-">>, <<"t","b","d">>, <<"t","b","a">> }

\* the loop over excel_errors testing equality (==) where the code tests `in`
FormulaErrorEquals(text) == {i \in 1..Len(excel_errors) : text = excel_errors[i]}

\* the loop over excel_errors: the positions of the codes the text contains
FormulaErrorHits(text) ==
    {i \in 1..Len(excel_errors) : Contains(text, excel_errors[i])}

\* the first code of the list that the loop meets
FirstHit(hits) == excel_errors[CHOOSE i \in hits : \A j \in hits : i <= j]

\* the test against missing_indicators without lower()
IsMissingIndicatorCaseSensitive(text) == Strip(text) \in missing_indicators

\* value.lower().strip() in missing_indicators
IsMissingIndicator(text) == Strip(Lower(text)) \in missing_indicators

\* a classifier that tests for a null sentinel first, and on the text
\* without its `#`
process_cell_value_sentinel_first(h, value, field_name, sheet_name, cell_address) ==
    IF value = None \/ value = Str(<<>>)
    THEN handle_empty_value(h, field_name, sheet_name, cell_address, FALSE)
    ELSE IF value.kind = "str"
    THEN IF IsMissingIndicator(RemoveChar(value.val, "#"))
         THEN handle_empty_value(h, field_name, sheet_name, cell_address, FALSE)
         ELSE IF FormulaErrorHits(value.val) # {}
         THEN handle_formula_error(h, field_name, sheet_name, cell_address,
                                   FirstHit(FormulaErrorHits(value.val)))
         ELSE Ret(h, Str(Strip(value.val)))
    ELSE IF value.kind \in {"num", "nan", "inf", "bool", "bigint"}
    THEN IF value.kind = "nan"
         THEN handle_empty_value(h, field_name, sheet_name, cell_address, FALSE)
         ELSE IF value.kind = "bigint"
         THEN Raise(h, <<"ufunc 'isinf' not supported for the input types">>)
         ELSE IF value.kind = "inf"
         THEN handle_empty_value(h, field_name, sheet_name, cell_address, FALSE)
         ELSE Ret(h, value)
    ELSE IF value.kind = "datetime"
    THEN Ret(h, value)
    ELSE IF value.raises
    THEN handle_data_type_error(h, field_name, sheet_name, cell_address, value, "string")
    ELSE Ret(h, StrOf(value))

\* ErrorHandler.process_cell_value
process_cell_value(h, value, field_name, sheet_name, cell_address) ==
    IF value = None \/ value = Str(<<>>)
    THEN handle_empty_value(h, field_name, sheet_name, cell_address, FALSE)
    ELSE IF value.kind = "str"
    THEN IF FormulaErrorHits(value.val) # {}
         THEN handle_formula_error(h, field_name, sheet_name, cell_address,
                                   FirstHit(FormulaErrorHits(value.val)))
         ELSE IF IsMissingIndicator(value.val)
         THEN handle_empty_value(h, field_name, sheet_name, cell_address, FALSE)
         ELSE Ret(h, Str(Strip(value.val)))
    ELSE IF value.kind \in {"num", "nan", "inf", "bool", "bigint"}
    THEN IF value.kind = "nan"
         THEN handle_empty_value(h, field_name, sheet_name, cell_address, FALSE)
         ELSE IF value.kind = "bigint"
         THEN Raise(h, <<"ufunc 'isinf' not supported for the input types">>)
         ELSE IF value.kind = "inf"
         THEN handle_empty_value(h, field_name, sheet_name, cell_address, FALSE)
         ELSE Ret(h, value)
    ELSE IF value.kind = "datetime"
    THEN Ret(h, value)
    ELSE IF value.raises
    THEN handle_data_type_error(h, field_name, sheet_name, cell_address, value, "string")
    ELSE Ret(h, StrOf(value))

-----------------------------------------------------------------------------
(* Workbooks *)

\* One enumerated cell: pyxlsb's Cell(r, c, v), 0-based; for an openpyxl
\* workbook the cell's 1-based row and column.
Cell(r, c, v) == [r |-> r, c |-> c, v |-> v]

\* the cells of a sequence of rows, in the order the iterator yields them
RECURSIVE Flatten(_)
Flatten(rows) == IF rows = <<>> THEN <<>> ELSE Head(rows) \o Flatten(Tail(rows))

-----------------------------------------------------------------------------
(* ExcelDataExtractor._extract_cell_value *)

\* number of leading characters of s that are in A-Z
RECURSIVE LeadingLetters(_)
LeadingLetters(s) ==
    IF s # <<>> /\ Head(s) \in Range(UC) THEN 1 + LeadingLetters(Tail(s)) ELSE 0

AllDigits(s) == s # <<>> /\ \A i \in 1..Len(s) : s[i] \in Range(DIGITS)

\* re.match(r'^([A-Z]+)(\d+)$', clean_address): the groups, or <<>> when there
\* is no match ($ also matches before one newline that ends the text)
MatchAddress(clean) ==
    LET k    == LeadingLetters(clean)
        body == IF clean # <<>> /\ clean[Len(clean)] = "\n"
                THEN SubSeq(clean, 1, Len(clean) - 1) ELSE clean
        rest == SubSeq(body, k + 1, Len(body))
    IN  IF k >= 1 /\ AllDigits(rest)
        THEN <<SubSeq(clean, 1, k), rest>>
        ELSE <<>>

\* int(row_str)
RECURSIVE ParseInt(_)
ParseInt(digits) ==
    IF digits = <<>> THEN 0
    ELSE 10 * ParseInt(SubSeq(digits, 1, Len(digits) - 1))
         + (IndexIn(DIGITS, digits[Len(digits)]) - 1)

\* target_row = int(row_str) - 1
TargetRow(row_str) == ParseInt(row_str) - 1

\* the loop over col_str: target_col = target_col * 26 + (ord(char) - ord('A') + 1)
RECURSIVE ColumnLoop(_, _)
ColumnLoop(target_col, col_str) ==
    IF col_str = <<>> THEN target_col
    ELSE ColumnLoop(target_col * 26 + IndexIn(UC, Head(col_str)), Tail(col_str))

\* target_col without the conversion to 0-based
TargetColOneBased(col_str) == ColumnLoop(0, col_str)

\* target_col after the loop and the conversion to 0-based
TargetCol(col_str) == ColumnLoop(0, col_str) - 1

\* a scan that keeps going and returns the last cell at (target_row, target_col)
LastMatch(cells, target_row, target_col) ==
    LET hits == {i \in 1..Len(cells) : cells[i].r = target_row /\ cells[i].c = target_col}
    IN  IF hits = {} THEN 0 ELSE CHOOSE i \in hits : \A j \in hits : i >= j

\* the first cell of cells at (target_row, target_col): its index, or 0
FirstMatch(cells, target_row, target_col) ==
    LET hits == {i \in 1..Len(cells) : cells[i].r = target_row /\ cells[i].c = target_col}
    IN  IF hits = {} THEN 0 ELSE CHOOSE i \in hits : \A j \in hits : i <= j

\* What the body of _extract_cell_value's try block does: it returns, or an
\* exception leaves it.
Returned(ret, target) ==
    [raised |-> ret.raised, h |-> ret.h, value |-> ret.value, target |-> target,
     error_msg |-> ret.error_msg]

Raised(h, target, error_msg) ==
    [raised |-> TRUE, h |-> h, value |-> NaN, target |-> target, error_msg |-> error_msg]

\* the pyxlsb branch
ExtractXlsb(h, workbook, sheet_name, cell_address, field_name) ==
    IF sheet_name \notin Range(workbook.sheets)
    THEN Returned(handle_missing_sheet(h, field_name, sheet_name), <<>>)
    ELSE
    LET clean_address == Upper(RemoveChar(cell_address, "$"))
        match == MatchAddress(clean_address)
    IN  IF match = <<>>
        THEN Returned(handle_invalid_cell_address(h, field_name, sheet_name, cell_address,
                          <<"Invalid format - expected format like 'A1', 'B10'">>),
                      <<>>)
        ELSE
        LET target_row == TargetRow(match[2])
            target_col == TargetCol(match[1])
            target == <<target_row, target_col>>
        IN  IF sheet_name \in workbook.unreadable
            THEN Raised(h, target, <<"sheet cannot be read", sheet_name>>)
            ELSE
            LET rows == workbook.rows[sheet_name]
                scanned == SelectSeq(rows, LAMBDA row_data : row_data # <<>>)
                rows_checked == Len(scanned)
                cells1 == Flatten(scanned)
                found1 == FirstMatch(cells1, target_row, target_col)
                cells2 == Flatten(rows)
                found2 == FirstMatch(cells2, target_row, target_col)
            IN  IF found1 # 0
                THEN Returned(process_cell_value(h, cells1[found1].v, field_name,
                                                 sheet_name, cell_address), target)
                ELSE IF found2 # 0
                THEN Returned(process_cell_value(h, cells2[found2].v, field_name,
                                                 sheet_name, cell_address), target)
                ELSE Returned(handle_cell_not_found(h, field_name, sheet_name,
                                  cell_address, <<rows_checked, target_col + 1>>),
                              target)

\* sheet[cell_address] of an openpyxl worksheet names one cell: the address is
\* [$]letters{1,3}[$]digits with the row and the column on the grid
XlsxSingleCell(cell_address) ==
    LET a1 == IF cell_address # <<>> /\ Head(cell_address) = "$"
              THEN Tail(cell_address) ELSE cell_address
        k  == LeadingLetters(Upper(a1))
        a2 == SubSeq(a1, k + 1, Len(a1))
        a3 == IF a2 # <<>> /\ Head(a2) = "$" THEN Tail(a2) ELSE a2
    IN  IF k \in 1..3 /\ AllDigits(a3) /\ Len(a3) <= 7
           /\ ParseInt(a3) \in 1..1048576
           /\ ColumnLoop(0, Upper(SubSeq(a1, 1, k))) \in 1..16384
        THEN <<ParseInt(a3), ColumnLoop(0, Upper(SubSeq(a1, 1, k)))>>
        ELSE <<>>

\* an openpyxl branch that looks at the address before the sheet list
ExtractXlsxAddressFirst(h, workbook, sheet_name, cell_address, field_name) ==
    LET at == XlsxSingleCell(cell_address)
    IN  IF at = <<>>
        THEN Raised(h, <<>>, <<"not a valid coordinate or range">> \o cell_address)
        ELSE IF sheet_name \notin Range(workbook.sheets)
        THEN Returned(handle_missing_sheet(h, field_name, sheet_name), <<>>)
        ELSE LET cells == Flatten(workbook.rows[sheet_name])
                 found == FirstMatch(cells, at[1], at[2])
                 value == IF found = 0 THEN None ELSE cells[found].v
             IN  Returned(process_cell_value(h, value, field_name, sheet_name,
                                             cell_address), at)

\* the openpyxl branch
ExtractXlsx(h, workbook, sheet_name, cell_address, field_name) ==
    IF sheet_name \notin Range(workbook.sheets)
    THEN Returned(handle_missing_sheet(h, field_name, sheet_name), <<>>)
    ELSE
    LET at == XlsxSingleCell(cell_address)
    IN  IF at = <<>>
        THEN Raised(h, <<>>, <<"not a valid coordinate or range">> \o cell_address)
        ELSE LET cells == Flatten(workbook.rows[sheet_name])
                 found == FirstMatch(cells, at[1], at[2])
                 value == IF found = 0 THEN None ELSE cells[found].v
             IN  Returned(process_cell_value(h, value, field_name, sheet_name,
                                             cell_address), at)

\* the try block of _extract_cell_value
ExtractCellBody(h, workbook, sheet_name, cell_address, field_name) ==
    IF workbook.ext = "xlsb"
    THEN ExtractXlsb(h, workbook, sheet_name, cell_address, field_name)
    ELSE ExtractXlsx(h, workbook, sheet_name, cell_address, field_name)

\* the except clause of _extract_cell_value, given how the try block ended
CatchUnknown(h, sheet_name, cell_address, field_name, body) ==
    IF body.raised
    THEN Returned(handle_unknown_error(h, field_name, sheet_name, cell_address,
                                       body.error_msg),
                  body.target)
    ELSE body

\* ExcelDataExtractor._extract_cell_value: the try block and its except clause
extract_cell_value(h, workbook, sheet_name, cell_address, field_name) ==
    CatchUnknown(h, sheet_name, cell_address, field_name,
                 ExtractCellBody(h, workbook, sheet_name, cell_address, field_name))

-----------------------------------------------------------------------------
(* The workbooks, addresses and raw values the model draws its inputs from *)

T_DIV0 == <<"#","D","I","V","/","0","!">>

T_REF == <<"#","R","E","F","!">>

T_OK == <<" ","O","k"," ">>

\* a readable .xlsb workbook; on row 5 the cell record (5,6) occurs twice
WB_A ==
    [ext |-> "xlsb", opens |-> TRUE,
     sheets |-> <<"Summary", "Rent Roll", "Broken">>,
     unreadable |-> {"Broken"},
     rows |-> [n \in {"Summary", "Rent Roll", "Broken"} |->
        IF n = "Summary"
        THEN << <<Cell(0, 0, Str(T_OK)), Cell(0, 1, Str(T_DIV0)), Cell(0, 2, Str(NA))>>,
                <<>>,
                <<Cell(5, 2, None), Cell(5, 3, Num(42)), Cell(5, 6, Num(154)),
                  Cell(5, 6, Num(999)), Cell(5, 26, Num(27))>>,
                <<Cell(8, 730, Num(0))>> >>
        ELSE <<>>]]

\* a readable .xlsx workbook (1-based cells)
WB_B ==
    [ext |-> "xlsx", opens |-> TRUE,
     sheets |-> <<"Summary">>,
     unreadable |-> {},
     rows |-> [n \in {"Summary"} |->
        << <<Cell(1, 1, Str(T_OK))>>,
           <<Cell(6, 1, BigInt), Cell(6, 4, Str(T_REF)), Cell(6, 7, Num(154))>> >>]]

\* files that cannot be opened: missing, or not a workbook
WB_BAD == [ext |-> "xlsb", opens |-> FALSE, sheets |-> <<>>, unreadable |-> {},
           rows |-> <<>>]

WB_BADX == [ext |-> "xlsx", opens |-> FALSE, sheets |-> <<>>, unreadable |-> {},
            rows |-> <<>>]

FilePaths == {"a.xlsb", "b.xlsx", "bad.xlsb", "bad.xlsx"}

Workbook(file_path) ==
    CASE file_path = "a.xlsb" -> WB_A
      [] file_path = "b.xlsx" -> WB_B
      [] file_path = "bad.xlsb" -> WB_BAD
      [] OTHER -> WB_BADX

A_D6 == <<"D","6">>

A_G6abs == <<"$","G","$","6">>

A_G6 == <<"G","6">>

A_AA6 == <<"A","A","6">>

A_ABC9 == <<"A","B","C","9">>

A_6D == <<"6","D">>

\* well-formed and malformed addresses
Addresses ==
    { A_D6, A_G6abs, A_G6, A_AA6, A_ABC9, A_6D,
      <<"d","6">>, <<"B","1">>, <<"C","6">>, <<"A","1">>, <<"Z","Z","9","9">>,
      <<"A","0">>, <<"A","0","1">>, <<"D">>, <<>>, <<"A","1",":","B","2">>,
      <<"A","-","1">>, <<"I","N","V","1","2","3">>, <<"A","1","\n">> }

\* the (workbook, sheet, address) triples a direct call may resolve
ExtractInputs ==
    ({"a.xlsb"} \X {"Summary"} \X Addresses)
    \cup ({"a.xlsb"} \X {"summary", "Missing", "Rent Roll", "Broken"} \X {A_D6, A_6D})
    \cup ({"b.xlsx"} \X {"Summary", "Missing"}
          \X {A_D6, A_G6abs, A_G6, A_6D, <<"A","1">>, <<"A","6">>, <<"D">>, <<"A","0">>,
              <<"I","N","V","1","2","3">>})
    \cup ({"b.xlsx"} \X {"summary"} \X {A_D6, A_6D})

\* raw cell values
RawValues ==
    { None, NaN, Inf, Num(0), Num(154), Num(-3), BigInt, Bool(TRUE), Bool(FALSE),
      DateTime(1), Other(1, FALSE), Other(2, TRUE),
      Str(<<>>), Str(<<" ">>), Str(T_OK), Str(<<"O","k">>),
      Str(T_REF), Str(T_DIV0), Str(<<"#","V","A","L","U","E","!">>),
      Str(<<"#","N","A","M","E","?">>), Str(<<"#","N","/","A">>),
      Str(<<"#","N","U","L","L","!">>), Str(<<"#","N","U","M","!">>),
      Str(<<"a"," ">> \o T_DIV0 \o <<" ","b">>), Str(<<"#","N","U","M","!">> \o T_REF),
      Str(<<"#","n","/","a">>), Str(<<"#","R","E","F">>),
      Str(NA), Str(<<" ","n","/","a"," ">>), Str(<<" ","N","/","A"," ">>), Str(<<"\t","-","\n">>), Str(<<"n","a">>), Str(<<"N","u","l","l">>),
      Str(<<"n","o","n","e">>), Str(<<"-">>), Str(<<"T","B","D">>), Str(<<"t","b","a">>),
      Str(<<"n","a","n">>), Str(<<"-","-">>) }

\* the mapping tables: field name, sheet name and cell address, in table order
Mapping(field_name, sheet_name, cell_address) ==
    [field_name |-> field_name, sheet_name |-> sheet_name, cell_address |-> cell_address]

TABLE_1 == << Mapping("UNITS", "Summary", A_G6abs), Mapping("NOI", "Missing", A_D6) >>

TABLE_2 == << Mapping("RATE", "Summary", <<"B","1">>), Mapping("BAD", "Summary", A_6D) >>

TABLE_3 ==
    << Mapping("EMPTY", "Summary", <<"C","6">>), Mapping("FAR", "Summary", <<"Z","Z","9","9">>),
       Mapping("LOST", "Broken", A_D6) >>

\* the entries of TABLE_1 in the other order
TABLE_4 == << Mapping("NOI", "Missing", A_D6), Mapping("UNITS", "Summary", A_G6abs) >>

MappingTables == {TABLE_1, TABLE_2, TABLE_3, TABLE_4}

FieldNames(table) == {table[k].field_name : k \in 1..Len(table)}

-----------------------------------------------------------------------------
(* Bounds *)

\* direct calls made on one handler
MaxCalls == 2

\* workbooks in one batch; batch_size and max_workers range over 1..MaxFiles
MaxFiles == 2

\* rows of a reference sheet
MaxRows == 2

\* diagnostics recorded before get_error_summary is called
MaxErrors == 12

-----------------------------------------------------------------------------
(* Direct calls of the resolver and of the classifier on one handler *)

TheHandler == Handler(errors, error_counts)

\* history: owners extended to length n, the new diagnostics being those of task i
Owners(owners, n, i) == [k \in 1..n |-> IF k <= Len(owners) THEN owners[k] ELSE i]

NoCall ==
    [op |-> "none", file_path |-> "", sheet_name |-> "", cell_address |-> <<>>,
     input |-> None, treat_as_error |-> FALSE, value |-> None, raised |-> FALSE,
     target |-> <<>>, before |-> NewHandler]

\* the effect of one direct call: the handler is updated and the call recorded
Direct(call, h) ==
    /\ calls < MaxCalls
    /\ calls' = calls + 1
    /\ errors' = h.errors
    /\ error_counts' = h.error_counts
    /\ errorOwner' = Owners(errorOwner, Len(h.errors), 0)
    /\ lastCall' = [call EXCEPT !.before = TheHandler]
    /\ UNCHANGED <<task, processed_results, failed_files, batch_start, pfpc, handles,
                   file_list, mappings, batch_size, max_workers, parser, mainpc,
            is_monitoring, monitor_thread, loops, monitorpc>>

CallExtractCellValue ==
    \E in \in ExtractInputs :
        LET r == extract_cell_value(TheHandler, Workbook(in[1]), in[2], in[3], "F")
        IN  Direct([NoCall EXCEPT !.op = "extract_cell_value", !.file_path = in[1],
                                  !.sheet_name = in[2], !.cell_address = in[3],
                                  !.value = r.value, !.raised = r.raised,
                                  !.target = r.target], r.h)

CallProcessCellValue ==
    \E v \in RawValues :
        LET r == process_cell_value(TheHandler, v, "F", "Summary", A_D6)
        IN  Direct([NoCall EXCEPT !.op = "process_cell_value", !.input = v,
                                  !.value = r.value, !.raised = r.raised], r.h)

Handled(op, r) ==
    Direct([NoCall EXCEPT !.op = op, !.value = r.value, !.raised = r.raised], r.h)

CallHandleMissingSheet ==
    Handled("handle_missing_sheet", handle_missing_sheet(TheHandler, "F", "Missing"))

CallHandleInvalidCellAddress ==
    Handled("handle_invalid_cell_address",
            handle_invalid_cell_address(TheHandler, "F", "Summary", A_6D,
                                        <<"Invalid format">>))

CallHandleCellNotFound ==
    \E size \in {<<>>, <<3, 4>>} :
        Handled("handle_cell_not_found",
                handle_cell_not_found(TheHandler, "F", "Summary", A_D6, size))

CallHandleFormulaError ==
    \E k \in 1..Len(excel_errors) :
        Handled("handle_formula_error",
                handle_formula_error(TheHandler, "F", "Summary", A_D6, excel_errors[k]))

CallHandleDataTypeError ==
    \E v \in {Other(1, FALSE), Other(2, TRUE)} :
        Handled("handle_data_type_error",
                handle_data_type_error(TheHandler, "F", "Summary", A_D6, v, "string"))

CallHandleEmptyValue ==
    \E treat_as_error \in BOOLEAN :
        LET r == handle_empty_value(TheHandler, "F", "Summary", A_D6, treat_as_error)
        IN  Direct([NoCall EXCEPT !.op = "handle_empty_value",
                                  !.treat_as_error = treat_as_error,
                                  !.value = r.value, !.raised = r.raised], r.h)

CallHandleParsingError ==
    Handled("handle_parsing_error",
            handle_parsing_error(TheHandler, "F", "Summary", A_D6, <<"bad value">>))

CallHandleFileAccessError ==
    Handled("handle_file_access_error",
            handle_file_access_error(TheHandler, "F", <<"File not found">>))

CallHandleUnknownError ==
    Handled("handle_unknown_error",
            handle_unknown_error(TheHandler, "F", "Summary", A_D6, <<"boom">>))

-----------------------------------------------------------------------------
(* ExcelDataExtractor.extract_from_file, as the steps of one worker *)

\* key = f"{error.category.value}_{error.error_message}"; no category is the
\* prefix of another, so the key stands for the pair
ErrorKey(error) == <<error.category, error.error_message>>

\* the entries of error_messages, in the order their keys were first met
ErrorMessages(errs) ==
    LET firsts == SelectSeq([i \in 1..Len(errs) |-> i],
                            LAMBDA i : \A j \in 1..(i - 1) :
                                          ErrorKey(errs[j]) # ErrorKey(errs[i]))
    IN  [k \in 1..Len(firsts) |->
            [category |-> errs[firsts[k]].category,
             message |-> errs[firsts[k]].error_message,
             count |-> Cardinality({i \in 1..Len(errs) :
                                      ErrorKey(errs[i]) = ErrorKey(errs[firsts[k]])}),
             example_field |-> errs[firsts[k]].field_name]]

\* entries without entry i
Without(entries, i) == SubSeq(entries, 1, i - 1) \o SubSeq(entries, i + 1, Len(entries))

\* the entries left in the order of error_messages
Unsorted(entries) == entries

\* the position sorted() takes first: the highest count, the earliest on a tie
FirstByCount(entries) ==
    CHOOSE i \in 1..Len(entries) :
        /\ \A j \in 1..Len(entries) : entries[j].count <= entries[i].count
        /\ \A j \in 1..(i - 1) : entries[j].count < entries[i].count

\* sorted(error_messages.values(), key=lambda x: x["count"], reverse=True)
RECURSIVE SortedByCount(_)
SortedByCount(entries) ==
    IF entries = <<>> THEN <<>>
    ELSE <<entries[FirstByCount(entries)]>>
         \o SortedByCount(Without(entries, FirstByCount(entries)))

\* sorted_errors[:10]
TopTen(entries) == SubSeq(entries, 1, IF Len(entries) < 10 THEN Len(entries) ELSE 10)

\* recommendations.append(text) under `if condition:`
AppendIf(recommendations, condition, text) ==
    IF condition THEN Append(recommendations, text) ELSE recommendations

\* a generator that recommends on any empty value
generate_recommendations_any_empty(h) ==
    AppendIf(AppendIf(AppendIf(AppendIf(AppendIf(AppendIf(<<>>,
        h.error_counts["missing_sheet"] > 0, "Missing Sheets"),
        h.error_counts["formula_error"] > 0, "Formula Errors"),
        h.error_counts["invalid_cell_address"] > 0, "Invalid Addresses"),
        h.error_counts["empty_value"] > 0, "Many Empty Values"),
        h.error_counts["data_type_error"] > 0, "Data Type Issues"),
        Len(h.errors) > 0, "Review the detailed error list")

\* ErrorHandler._generate_recommendations: the six tests, in their order; a
\* recommendation is named by the heading of its text
generate_recommendations(h) ==
    AppendIf(AppendIf(AppendIf(AppendIf(AppendIf(AppendIf(<<>>,
        h.error_counts["missing_sheet"] > 0, "Missing Sheets"),
        h.error_counts["formula_error"] > 0, "Formula Errors"),
        h.error_counts["invalid_cell_address"] > 0, "Invalid Addresses"),
        h.error_counts["empty_value"] > 5, "Many Empty Values"),
        h.error_counts["data_type_error"] > 0, "Data Type Issues"),
        Len(h.errors) > 0, "Review the detailed error list")

\* ErrorHandler.get_error_summary: the total, the per-category counts that are
\* not zero, the most common errors, the recommendations and the full list of
\* diagnostics
get_error_summary(h) ==
    IF Len(h.errors) = 0
    THEN [total_errors |-> 0, categories |-> <<>>]
    ELSE [total_errors |-> Len(h.errors),
          error_breakdown_by_category |->
              [c \in {x \in ErrorCategory : h.error_counts[x] > 0} |->
                  [count |-> h.error_counts[c]]],
          most_common_errors |-> TopTen(SortedByCount(ErrorMessages(h.errors))),
          recommendations |-> generate_recommendations(h),
          detailed_errors |-> h.errors]

\* a worker that has not started
NewTask ==
    [pc |-> "pending", idx |-> 1, extracted_data |-> <<>>, extraction_errors |-> <<>>,
     successful |-> 0, failed |-> 0, metadata |-> <<>>, collected |-> FALSE]

\* a loop body that stores a field only when a value was found
StoreFieldOmitsMissing(t, mapping, r) ==
    [t |-> [t EXCEPT !.extracted_data =
                         IF r.value = NaN THEN @ ELSE (mapping.field_name :> r.value) @@ @,
                     !.successful = @ + 1,
                     !.idx = @ + 1],
     h |-> r.h]

\* the body of the loop over self.mappings, given what _extract_cell_value did:
\* the value is stored and counted, or the exception handled
StoreField(t, mapping, r) ==
    IF ~r.raised
    THEN [t |-> [t EXCEPT !.extracted_data = (mapping.field_name :> r.value) @@ @,
                          !.successful = @ + 1,
                          !.idx = @ + 1],
          h |-> r.h]
    ELSE [t |-> [t EXCEPT !.extracted_data = (mapping.field_name :> NaN) @@ @,
                          !.extraction_errors =
                              Append(@, [field |-> mapping.field_name,
                                         sheet |-> mapping.sheet_name,
                                         cell |-> mapping.cell_address]),
                          !.failed = @ + 1,
                          !.idx = @ + 1],
          h |-> r.h]

\* a loop turn that no longer resolves once an earlier entry has failed
ExtractFieldStepAfterFailure(t, h, workbook, mapping) ==
    StoreField(t, mapping,
               IF h.errors # <<>>
               THEN Returned(Ret(h, NaN), <<>>)
               ELSE extract_cell_value(h, workbook, mapping.sheet_name,
                                       mapping.cell_address, mapping.field_name))

\* one turn of the loop over self.mappings: the task and the handler afterwards
ExtractFieldStep(t, h, workbook, mapping) ==
    StoreField(t, mapping,
               extract_cell_value(h, workbook, mapping.sheet_name, mapping.cell_address,
                                  mapping.field_name))

\* the _extraction_metadata attached after the loop
ExtractionMetadata(t, h, table) ==
    [total_fields |-> Len(table), successful |-> t.successful, failed |-> t.failed,
     error_summary |-> get_error_summary(h)]

Tasks == 1..Len(file_list)

Running == {i \in Tasks : task[i].pc = "running"}

\* a pool that starts every queued task at once
StartTaskUnbounded(i) ==
    /\ task[i].pc = "queued"
    /\ IF Workbook(file_list[i]).opens
       THEN /\ task' = [task EXCEPT ![i].pc = "running"]
            /\ handles' = handles \cup {i}
       ELSE /\ task' = [task EXCEPT ![i].pc = "raised"]
            /\ UNCHANGED handles
    /\ UNCHANGED <<errors, error_counts, errorOwner, calls, lastCall, processed_results,
                   failed_files, batch_start, pfpc, file_list, mappings, batch_size,
                   max_workers, parser, mainpc,
            is_monitoring, monitor_thread, loops, monitorpc>>

\* a worker thread takes the next queued task: extract_from_file checks the
\* path and loads the workbook, which raises or leaves a handle open
StartTask(i) ==
    /\ task[i].pc = "queued"
    /\ \A j \in Tasks : j < i => task[j].pc # "queued"
    /\ Cardinality(Running) < max_workers
    /\ IF Workbook(file_list[i]).opens
       THEN /\ task' = [task EXCEPT ![i].pc = "running"]
            /\ handles' = handles \cup {i}
       ELSE /\ task' = [task EXCEPT ![i].pc = "raised"]
            /\ UNCHANGED handles
    /\ UNCHANGED <<errors, error_counts, errorOwner, calls, lastCall, processed_results,
                   failed_files, batch_start, pfpc, file_list, mappings, batch_size,
                   max_workers, parser, mainpc,
            is_monitoring, monitor_thread, loops, monitorpc>>

\* the effect of one turn of the loop on the task and on the shared handler
FieldDone(i, r) ==
    /\ task' = [task EXCEPT ![i] = r.t]
    /\ errors' = r.h.errors
    /\ error_counts' = r.h.error_counts
    /\ errorOwner' = Owners(errorOwner, Len(r.h.errors), i)

\* a loop turn that writes the cleaned address back into the mapping entry
ExtractFieldCleaningEntry(i) ==
    /\ task[i].pc = "running"
    /\ task[i].idx <= Len(mappings)
    /\ FieldDone(i, ExtractFieldStep(task[i], TheHandler, Workbook(file_list[i]),
                                     mappings[task[i].idx]))
    /\ mappings' = [mappings EXCEPT ![task[i].idx].cell_address = RemoveChar(@, "$")]
    /\ UNCHANGED <<calls, lastCall, processed_results, failed_files, batch_start, pfpc,
                   handles, file_list, batch_size, max_workers, parser, mainpc,
            is_monitoring, monitor_thread, loops, monitorpc>>

\* the worker resolves its next mapping entry
ExtractField(i) ==
    /\ task[i].pc = "running"
    /\ task[i].idx <= Len(mappings)
    /\ FieldDone(i, ExtractFieldStep(task[i], TheHandler, Workbook(file_list[i]),
                                     mappings[task[i].idx]))
    /\ UNCHANGED <<calls, lastCall, processed_results, failed_files, batch_start, pfpc,
                   handles, file_list, mappings, batch_size, max_workers, parser, mainpc,
            is_monitoring, monitor_thread, loops, monitorpc>>

\* after the loop the worker attaches the metadata and returns the record
FinishTask(i) ==
    /\ task[i].pc = "running"
    /\ task[i].idx > Len(mappings)
    /\ task' = [task EXCEPT ![i].pc = "returned",
                            ![i].metadata = ExtractionMetadata(task[i], TheHandler, mappings)]
    /\ UNCHANGED <<errors, error_counts, errorOwner, calls, lastCall, processed_results,
                   failed_files, batch_start, pfpc, handles, file_list, mappings,
                   batch_size, max_workers, parser, mainpc,
            is_monitoring, monitor_thread, loops, monitorpc>>

-----------------------------------------------------------------------------
(* BatchFileProcessor.process_files, the main thread *)

\* min(batch_start + batch_size, total_files), 1-based and inclusive
BatchEnd ==
    IF batch_start + batch_size - 1 < Len(file_list)
    THEN batch_start + batch_size - 1 ELSE Len(file_list)

Batch == batch_start..BatchEnd

\* the record _process_single_file returns
ResultRecord(i) ==
    [file_path |-> file_list[i], data |-> task[i].extracted_data,
     extraction_errors |-> task[i].extraction_errors, metadata |-> task[i].metadata]

\* the next group's tasks are submitted to a new pool
SubmitBatch ==
    /\ pfpc = "batch"
    /\ batch_start <= Len(file_list)
    /\ task' = [i \in Tasks |-> IF i \in Batch THEN [task[i] EXCEPT !.pc = "queued"]
                                ELSE task[i]]
    /\ pfpc' = "collect"
    /\ UNCHANGED <<errors, error_counts, errorOwner, calls, lastCall, processed_results,
                   failed_files, batch_start, handles, file_list, mappings, batch_size,
                   max_workers, parser, mainpc,
            is_monitoring, monitor_thread, loops, monitorpc>>

\* a collection loop without the except clause: a future's exception leaves
\* process_files
CollectUncaught(i) ==
    /\ pfpc = "collect"
    /\ task[i].pc \in {"returned", "raised"}
    /\ ~task[i].collected
    /\ IF task[i].pc = "returned"
       THEN /\ processed_results' = Append(processed_results,
                    [file_path |-> file_list[i], data |-> task[i].extracted_data,
                     extraction_errors |-> task[i].extraction_errors,
                     metadata |-> task[i].metadata])
            /\ pfpc' = pfpc
       ELSE /\ pfpc' = "raised"
            /\ UNCHANGED processed_results
    /\ task' = [task EXCEPT ![i].collected = TRUE]
    /\ UNCHANGED <<errors, error_counts, errorOwner, calls, lastCall, batch_start,
                   failed_files, handles, file_list, mappings, batch_size, max_workers, parser, mainpc,
            is_monitoring, monitor_thread, loops, monitorpc>>

\* as_completed yields a finished future: its result is kept, or its
\* exception is recorded as a failed file
Collect(i) ==
    /\ pfpc = "collect"
    /\ task[i].pc \in {"returned", "raised"}
    /\ ~task[i].collected
    /\ IF task[i].pc = "returned"
       THEN /\ processed_results' = Append(processed_results, ResultRecord(i))
            /\ UNCHANGED failed_files
       ELSE /\ failed_files' = Append(failed_files, [file_info |-> file_list[i]])
            /\ UNCHANGED processed_results
    /\ task' = [task EXCEPT ![i].collected = TRUE]
    /\ UNCHANGED <<errors, error_counts, errorOwner, calls, lastCall, batch_start, pfpc,
                   handles, file_list, mappings, batch_size, max_workers, parser, mainpc,
            is_monitoring, monitor_thread, loops, monitorpc>>

\* every future of the group was yielded and the pool is shut down
NextBatch ==
    /\ pfpc = "collect"
    /\ \A i \in Batch : task[i].collected
    /\ batch_start' = batch_start + batch_size
    /\ pfpc' = "batch"
    /\ UNCHANGED <<errors, error_counts, errorOwner, calls, lastCall, task,
                   processed_results, failed_files, handles, file_list, mappings,
                   batch_size, max_workers, parser, mainpc,
            is_monitoring, monitor_thread, loops, monitorpc>>

\* after the last group: _generate_processing_summary, then the return
GenerateSummary ==
    /\ pfpc = "batch"
    /\ batch_start > Len(file_list)
    /\ pfpc' = "returned"
    /\ UNCHANGED <<errors, error_counts, errorOwner, calls, lastCall, task,
                   processed_results, failed_files, batch_start, handles, file_list,
                   mappings, batch_size, max_workers, parser, mainpc,
            is_monitoring, monitor_thread, loops, monitorpc>>

-----------------------------------------------------------------------------
(* Classification calls followed by get_error_summary, on one handler *)

\* fifteen classification calls whose (category, message) pairs differ
Catalog(k, h) ==
    CASE k = 1 -> handle_empty_value(h, "F", "Summary", A_D6, TRUE)
      [] k = 2 -> handle_missing_sheet(h, "F", "Missing")
      [] k = 3 -> handle_invalid_cell_address(h, "F", "Summary", A_6D, <<"Invalid format">>)
      [] k = 4 -> handle_cell_not_found(h, "F", "Summary", A_D6, <<3, 4>>)
      [] k \in 5..11 -> handle_formula_error(h, "G", "Summary", A_D6, excel_errors[k - 4])
      [] k = 12 -> handle_data_type_error(h, "F", "Summary", A_D6, Other(1, FALSE), "string")
      [] k = 13 -> handle_parsing_error(h, "F", "Summary", A_D6, <<"bad value">>)
      [] k = 14 -> handle_file_access_error(h, "F", <<"File not found">>)
      [] OTHER -> handle_unknown_error(h, "F", "Summary", A_D6, <<"boom">>)

CatalogSize == 15

\* the number of distinct (category, message) pairs recorded so far
DistinctPairs == Cardinality({ErrorKey(errors[i]) : i \in 1..Len(errors)})

\* the effect of a classification call of the catalog
Classified(r) ==
    /\ errors' = r.h.errors
    /\ error_counts' = r.h.error_counts
    /\ errorOwner' = Owners(errorOwner, Len(r.h.errors), 0)
    /\ lastCall' = [NoCall EXCEPT !.op = "classify", !.value = r.value,
                                  !.before = TheHandler]
    /\ UNCHANGED <<calls, task, processed_results, failed_files, batch_start, pfpc,
                   handles, file_list, mappings, batch_size, max_workers, parser, mainpc,
            is_monitoring, monitor_thread, loops, monitorpc>>

\* a classification that records a pair not recorded before
ClassifyNew ==
    /\ Len(errors) < MaxErrors
    /\ DistinctPairs < CatalogSize
    /\ Classified(Catalog(DistinctPairs + 1, TheHandler))

\* the latest classification once more
ClassifyAgain ==
    /\ Len(errors) < MaxErrors
    /\ DistinctPairs >= 1
    /\ Classified(Catalog(DistinctPairs, TheHandler))

\* get_error_summary is called; it leaves the handler as it is
CallGetErrorSummary ==
    /\ lastCall.op # "get_error_summary"
    /\ lastCall' = [NoCall EXCEPT !.op = "get_error_summary",
                                  !.value = get_error_summary(TheHandler),
                                  !.before = TheHandler]
    /\ UNCHANGED <<errors, error_counts, errorOwner, calls, task, processed_results,
                   failed_files, batch_start, pfpc, handles, file_list, mappings,
                   batch_size, max_workers, parser, mainpc,
            is_monitoring, monitor_thread, loops, monitorpc>>

-----------------------------------------------------------------------------
(* CellMappingParser *)

\* s.replace(c, d) for one-character c and d
ReplaceChar(s, c, d) == [i \in 1..Len(s) |-> IF s[i] = c THEN d ELSE s[i]]

\* one clean_name.replace("__", "_"): left to right, without overlap
RECURSIVE ReplacePairs(_)
ReplacePairs(s) ==
    IF Len(s) < 2 THEN s
    ELSE IF s[1] = "_" /\ s[2] = "_"
    THEN <<"_">> \o ReplacePairs(SubSeq(s, 3, Len(s)))
    ELSE <<s[1]>> \o ReplacePairs(Tail(s))

\* while "__" in clean_name: clean_name = clean_name.replace("__", "_")
RECURSIVE RemoveDuplicateUnderscores(_)
RemoveDuplicateUnderscores(s) ==
    IF Contains(s, <<"_", "_">>) THEN RemoveDuplicateUnderscores(ReplacePairs(s)) ELSE s

\* CellMappingParser._clean_field_name
clean_field_name(description) ==
    RemoveDuplicateUnderscores(
        Upper(RemoveChar(
                ReplaceChar(
                    RemoveChar(RemoveChar(
                        ReplaceChar(ReplaceChar(Strip(description), " ", "_"), "-", "_"),
                        "("), ")"),
                    "/", "_"),
                ".")))

\* pd.notna of a cell of the data frame
NotNa(v) == v # NaN

\* str(row[col]): the text of a cell, "nan" for an empty one
StrCell(v) == IF v = NaN THEN <<"n","a","n">> ELSE v.val

\* str(row[sheet_col]); sheet names are kept whole, as the workbooks name them
StrSheet(v) == IF v = NaN THEN "nan" ELSE v.val

\* str(row[cell_col]) without upper()
CellAddressNoUpper(v) == Strip(StrCell(v))

\* str(row[cell_col]).strip().upper()
CellAddress(v) == Upper(Strip(StrCell(v)))

\* the CellMapping built from a row; source_row is history: the row it came from
CellMapping(row, idx) ==
    [category |-> IF NotNa(row.category) THEN row.category.val ELSE "Uncategorized",
     description |-> StrCell(row.description),
     sheet_name |-> StrSheet(row.sheet_name),
     cell_address |-> CellAddress(row.cell_address),
     field_name |-> clean_field_name(StrCell(row.description)),
     source_row |-> idx]

\* a row of the reference sheet: the cells of columns B, C, D and G
Row(category, description, sheet_name, cell_address) ==
    [category |-> category, description |-> description, sheet_name |-> sheet_name,
     cell_address |-> cell_address]

D_UNITS == <<"U","n","i","t","s">>

D_NOI == <<"N","O","I"," ","(","Y","r"," ","1",")">>

D_CAP == <<"C","a","p"," ","R","a","t","e"," ","%">>

D_RENT == <<" ","R","e","n","t","/","S","F"," ","-"," ","n","e","t",".">>

\* rows with every field filled, and rows with one field empty or blank
ReferenceRows ==
    { Row(Str("Income"), Str(D_UNITS), Str("Summary"), Str(<<"$","g","$","6">>)),
      Row(Str("Income"), Str(D_RENT), Str("Summary"), Str(<<" ","b","1"," ">>)),
      Row(NaN, Str(D_NOI), Str("Missing"), Str(A_D6)),
      Row(Str("Income"), NaN, Str("Summary"), Str(A_D6)),
      Row(Str("Income"), Str(D_CAP), Str("Summary"), NaN),
      Row(Str("Income"), Str(<<" ">>), Str("Summary"), Str(<<"B","1">>)),
      Row(Str("Income"), Str(D_CAP), NaN, Str(<<"C","6">>)),
      Row(Str(" "), Str(D_NOI), Str("Summary"), Str(<<" ">>)) }

\* a reference file: whether it opens, whether it has the sheet
\* "UW Model - Cell Reference Table", how many columns the sheet has, its rows
ReferenceFile(opens, has_sheet, columns, rows) ==
    [opens |-> opens, has_sheet |-> has_sheet, columns |-> columns, rows |-> rows]

\* CellMappingParser.__init__; order is the insertion order of self.mappings
NewParser(reference_file) ==
    [reference_file |-> reference_file, pc |-> "start", idx |-> 1,
     mappings |-> <<>>, order |-> <<>>]

\* no parser: the extractor was given its mapping table directly
NoParser == NewParser(ReferenceFile(FALSE, FALSE, 0, <<>>))

\* how pd.read_excel ends when every failure is swallowed
ReadExcelSwallowed(reference_file) == "rows"

\* how pd.read_excel ends: it raises when the file cannot be opened or the
\* sheet is absent
ReadExcel(reference_file) ==
    IF reference_file.opens /\ reference_file.has_sheet THEN "rows" ELSE "raised"

\* load_mappings reads the reference sheet
LoadStart ==
    /\ mainpc = "load"
    /\ parser.pc = "start"
    /\ parser' = [parser EXCEPT !.pc = ReadExcel(parser.reference_file)]
    /\ UNCHANGED <<errors, error_counts, calls, lastCall, task, processed_results,
                   failed_files, batch_start, pfpc, handles, errorOwner, file_list,
                   mappings, batch_size, max_workers, mainpc,
            is_monitoring, monitor_thread, loops, monitorpc>>

\* a store that keeps the entry a field name already has
StoreMappingKeepFirst(p, mapping) ==
    [p EXCEPT !.mappings = @ @@ (mapping.field_name :> mapping),
              !.order = IF mapping.field_name \in DOMAIN p.mappings
                        THEN @ ELSE Append(@, mapping.field_name),
              !.idx = @ + 1]

\* self.mappings[field_name] = mapping
StoreMapping(p, mapping) ==
    [p EXCEPT !.mappings = (mapping.field_name :> mapping) @@ @,
              !.order = IF mapping.field_name \in DOMAIN p.mappings
                        THEN @ ELSE Append(@, mapping.field_name),
              !.idx = @ + 1]

\* one turn of the loop over df.iterrows(); once the description is there,
\* row[cell_col] is read, which raises when the sheet has no column G
LoadRow ==
    /\ mainpc = "load"
    /\ parser.pc = "rows"
    /\ parser.idx <= Len(parser.reference_file.rows)
    /\ parser' =
          IF ~NotNa(parser.reference_file.rows[parser.idx].description)
          THEN [parser EXCEPT !.idx = @ + 1]
          ELSE IF parser.reference_file.columns < 7
          THEN [parser EXCEPT !.pc = "raised"]
          ELSE IF NotNa(parser.reference_file.rows[parser.idx].cell_address)
          THEN StoreMapping(parser, CellMapping(parser.reference_file.rows[parser.idx],
                                                parser.idx))
          ELSE [parser EXCEPT !.idx = @ + 1]
    /\ UNCHANGED <<errors, error_counts, calls, lastCall, task, processed_results,
                   failed_files, batch_start, pfpc, handles, errorOwner, file_list,
                   mappings, batch_size, max_workers, mainpc,
            is_monitoring, monitor_thread, loops, monitorpc>>

\* after the last row load_mappings returns self.mappings
LoadReturn ==
    /\ mainpc = "load"
    /\ parser.pc = "rows"
    /\ parser.idx > Len(parser.reference_file.rows)
    /\ parser' = [parser EXCEPT !.pc = "returned"]
    /\ UNCHANGED <<errors, error_counts, calls, lastCall, task, processed_results,
                   failed_files, batch_start, pfpc, handles, errorOwner, file_list,
                   mappings, batch_size, max_workers, mainpc,
            is_monitoring, monitor_thread, loops, monitorpc>>

-----------------------------------------------------------------------------
(* main *)

\* the loaded table as the extractor iterates it: self.mappings.items()
MappingItems(p) ==
    [k \in 1..Len(p.order) |->
        Mapping(p.order[k], p.mappings[p.order[k]].sheet_name,
                p.mappings[p.order[k]].cell_address)]

\* load_mappings raised: main logs and re-raises
MainRaise ==
    /\ mainpc = "load"
    /\ parser.pc = "raised"
    /\ mainpc' = "raised"
    /\ UNCHANGED <<errors, error_counts, calls, lastCall, task, processed_results,
                   failed_files, batch_start, pfpc, handles, errorOwner, file_list,
                   mappings, batch_size, max_workers, parser,
            is_monitoring, monitor_thread, loops, monitorpc>>

\* ExcelDataExtractor(mappings), BatchFileProcessor(extractor, batch_size) and
\* the call of process_files
CreateExtractor ==
    /\ mainpc = "load"
    /\ parser.pc = "returned"
    /\ mappings' = MappingItems(parser)
    /\ mainpc' = "processing"
    /\ pfpc' = "batch"
    /\ UNCHANGED <<errors, error_counts, calls, lastCall, task, processed_results,
                   failed_files, batch_start, handles, errorOwner, file_list,
                   batch_size, max_workers, parser,
            is_monitoring, monitor_thread, loops, monitorpc>>

\* process_files has returned: the results are exported
ExportResults ==
    /\ mainpc = "processing"
    /\ pfpc = "returned"
    /\ mainpc' = "done"
    /\ UNCHANGED <<errors, error_counts, calls, lastCall, task, processed_results,
                   failed_files, batch_start, pfpc, handles, errorOwner, file_list,
                   mappings, batch_size, max_workers, parser,
            is_monitoring, monitor_thread, loops, monitorpc>>

-----------------------------------------------------------------------------
(* Specifications *)

\* file lists of 1..n workbooks
FileLists(n) == UNION {[1..k -> FilePaths] : k \in 1..n}

\* a batch: one extractor, one mapping table, one call of process_files
Init ==
    /\ file_list \in FileLists(MaxFiles)
    /\ mappings \in MappingTables
    /\ batch_size \in 1..MaxFiles
    /\ max_workers \in 1..MaxFiles
    /\ errors = <<>>
    /\ error_counts = [c \in ErrorCategory |-> 0]
    /\ errorOwner = <<>>
    /\ calls = 0
    /\ lastCall = NoCall
    /\ task = [i \in 1..Len(file_list) |-> NewTask]
    /\ processed_results = <<>>
    /\ failed_files = <<>>
    /\ batch_start = 1
    /\ pfpc = "batch"
    /\ handles = {}
    /\ is_monitoring = FALSE
    /\ monitor_thread = 0
    /\ loops = <<>>
    /\ monitorpc = "idle"
    /\ parser = NoParser
    /\ mainpc = "none"

Next ==
    \/ SubmitBatch
    \/ \E i \in Tasks : StartTask(i)
    \/ \E i \in Tasks : ExtractField(i)
    \/ \E i \in Tasks : FinishTask(i)
    \/ \E i \in Tasks : Collect(i)
    \/ NextBatch
    \/ GenerateSummary

Spec == Init /\ [][Next]_vars

\* direct calls on a fresh handler
InitCell ==
    /\ file_list = <<>>
    /\ mappings = TABLE_1
    /\ batch_size = 1
    /\ max_workers = 1
    /\ errors = <<>>
    /\ error_counts = [c \in ErrorCategory |-> 0]
    /\ errorOwner = <<>>
    /\ calls = 0
    /\ lastCall = NoCall
    /\ task = <<>>
    /\ processed_results = <<>>
    /\ failed_files = <<>>
    /\ batch_start = 1
    /\ pfpc = "batch"
    /\ handles = {}
    /\ is_monitoring = FALSE
    /\ monitor_thread = 0
    /\ loops = <<>>
    /\ monitorpc = "idle"
    /\ parser = NoParser
    /\ mainpc = "none"

NextCell ==
    \/ CallExtractCellValue
    \/ CallProcessCellValue
    \/ CallHandleMissingSheet
    \/ CallHandleInvalidCellAddress
    \/ CallHandleCellNotFound
    \/ CallHandleFormulaError
    \/ CallHandleDataTypeError
    \/ CallHandleEmptyValue
    \/ CallHandleParsingError
    \/ CallHandleFileAccessError
    \/ CallHandleUnknownError

SpecCell == InitCell /\ [][NextCell]_vars

\* reference sheets of up to n rows
RowLists(n) == UNION {[1..k -> ReferenceRows] : k \in 0..n}

\* the reference files: sheets that load, a file that does not open, a file
\* without the sheet, and a sheet without column G
ReferenceFiles ==
    {ReferenceFile(TRUE, TRUE, 7, rows) : rows \in RowLists(MaxRows)}
    \cup {ReferenceFile(FALSE, FALSE, 0, <<>>)}
    \cup {ReferenceFile(TRUE, FALSE, 0, <<>>)}
    \cup {ReferenceFile(TRUE, TRUE, 4, rows) : rows \in RowLists(1)}

\* main(): the mapping table is loaded, then one workbook is processed
InitMain ==
    /\ parser \in {NewParser(f) : f \in ReferenceFiles}
    /\ mainpc = "load"
    /\ file_list \in {<<p>> : p \in {"a.xlsb", "b.xlsx", "bad.xlsb"}}
    /\ mappings = <<>>
    /\ batch_size = 1
    /\ max_workers = 1
    /\ errors = <<>>
    /\ error_counts = [c \in ErrorCategory |-> 0]
    /\ errorOwner = <<>>
    /\ calls = 0
    /\ lastCall = NoCall
    /\ task = [i \in 1..Len(file_list) |-> NewTask]
    /\ processed_results = <<>>
    /\ failed_files = <<>>
    /\ batch_start = 1
    /\ pfpc = "not called"
    /\ handles = {}
    /\ is_monitoring = FALSE
    /\ monitor_thread = 0
    /\ loops = <<>>
    /\ monitorpc = "idle"

NextMain ==
    \/ LoadStart
    \/ LoadRow
    \/ LoadReturn
    \/ MainRaise
    \/ CreateExtractor
    \/ Next
    \/ ExportResults

SpecMain == InitMain /\ [][NextMain]_vars

NextSummary ==
    \/ ClassifyNew
    \/ ClassifyAgain
    \/ CallGetErrorSummary

\* classification calls and get_error_summary on a fresh handler
SpecSummary == InitCell /\ [][NextSummary]_vars

-----------------------------------------------------------------------------
(* ErrorHandler._log_error step by step, on the handler the workers share *)

\* the handler after the loop over self.mappings, run from entry t.idx on
RECURSIVE ResolveAll(_, _, _, _)
ResolveAll(t, h, workbook, table) ==
    IF t.idx > Len(table) THEN h
    ELSE ResolveAll(ExtractFieldStep(t, h, workbook, table[t.idx]).t,
                    ExtractFieldStep(t, h, workbook, table[t.idx]).h, workbook, table)

\* the diagnostics extract_from_file passes to _log_error for one workbook
DiagnosticsFor(file_path, table) ==
    ResolveAll(NewTask, NewHandler, Workbook(file_path), table).errors

\* self.errors.append(error)
LogAppend(i) ==
    /\ task[i].pc = "append"
    /\ task[i].todo # <<>>
    /\ errors' = Append(errors, Head(task[i].todo))
    /\ errorOwner' = Append(errorOwner, i)
    /\ task' = [task EXCEPT ![i].pc = "load"]
    /\ UNCHANGED <<error_counts, calls, lastCall, processed_results, failed_files,
                   batch_start, pfpc, handles, file_list, mappings, batch_size,
                   max_workers, parser, mainpc,
            is_monitoring, monitor_thread, loops, monitorpc>>

\* self.error_counts[error.category] += 1, first half: the count is loaded
LogLoadCount(i) ==
    /\ task[i].pc = "load"
    /\ task' = [task EXCEPT ![i].pc = "store",
                            ![i].count = error_counts[Head(task[i].todo).category]]
    /\ UNCHANGED <<errors, error_counts, errorOwner, calls, lastCall, processed_results,
                   failed_files, batch_start, pfpc, handles, file_list, mappings,
                   batch_size, max_workers, parser, mainpc,
            is_monitoring, monitor_thread, loops, monitorpc>>

\* second half: the loaded count plus one is stored
LogStoreCount(i) ==
    /\ task[i].pc = "store"
    /\ error_counts' = [error_counts EXCEPT ![Head(task[i].todo).category] =
                                                task[i].count + 1]
    /\ task' = [task EXCEPT ![i].pc = "append", ![i].todo = Tail(@)]
    /\ UNCHANGED <<errors, errorOwner, calls, lastCall, processed_results, failed_files,
                   batch_start, pfpc, handles, file_list, mappings, batch_size,
                   max_workers, parser, mainpc,
            is_monitoring, monitor_thread, loops, monitorpc>>

\* one group of workbooks that open, each on its own worker thread of the pool
InitLog ==
    /\ file_list \in UNION {[1..k -> {"a.xlsb", "b.xlsx"}] : k \in 1..MaxFiles}
    /\ mappings \in MappingTables
    /\ batch_size = MaxFiles
    /\ max_workers = MaxFiles
    /\ errors = <<>>
    /\ error_counts = [c \in ErrorCategory |-> 0]
    /\ errorOwner = <<>>
    /\ calls = 0
    /\ lastCall = NoCall
    /\ task = [i \in 1..Len(file_list) |->
                  [pc |-> "append", todo |-> DiagnosticsFor(file_list[i], mappings),
                   count |-> 0]]
    /\ processed_results = <<>>
    /\ failed_files = <<>>
    /\ batch_start = 1
    /\ pfpc = "collect"
    /\ handles = {}
    /\ is_monitoring = FALSE
    /\ monitor_thread = 0
    /\ loops = <<>>
    /\ monitorpc = "idle"
    /\ parser = NoParser
    /\ mainpc = "none"

NextLog ==
    \/ \E i \in Tasks : LogAppend(i)
    \/ \E i \in Tasks : LogLoadCount(i)
    \/ \E i \in Tasks : LogStoreCount(i)

SpecLog == InitLog /\ [][NextLog]_vars

-----------------------------------------------------------------------------
(* DeltaMonitorService: start_monitoring, stop_monitoring and _monitor_loop *)

\* the number of _monitor_loop threads that may be started
MaxStarts == 3

\* start_monitoring: nothing when is_monitoring is set; else the flag is set
\* and a new thread runs _monitor_loop
StartMonitoring ==
    /\ monitorpc = "idle"
    /\ Len(loops) < MaxStarts
    /\ IF is_monitoring
       THEN UNCHANGED <<is_monitoring, monitor_thread, loops>>
       ELSE /\ is_monitoring' = TRUE
            /\ loops' = Append(loops, "test")
            /\ monitor_thread' = Len(loops) + 1
    /\ UNCHANGED <<errors, error_counts, calls, lastCall, task, processed_results,
                   failed_files, batch_start, pfpc, handles, errorOwner, file_list,
                   mappings, batch_size, max_workers, parser, mainpc, monitorpc>>

\* stop_monitoring: the flag is cleared, and a live monitor_thread is joined
StopMonitoring ==
    /\ monitorpc = "idle"
    /\ is_monitoring' = FALSE
    /\ monitorpc' = IF monitor_thread # 0 /\ loops[monitor_thread] # "exited"
                    THEN "joining" ELSE "idle"
    /\ UNCHANGED <<errors, error_counts, calls, lastCall, task, processed_results,
                   failed_files, batch_start, pfpc, handles, errorOwner, file_list,
                   mappings, batch_size, max_workers, parser, mainpc, monitor_thread,
                   loops>>

\* join(timeout=5) returns: the thread has ended, or the five seconds are over
\* while it sleeps (30 s, or 1800 s after a failure) or is still checking
JoinEnds ==
    /\ monitorpc = "joining"
    /\ loops[monitor_thread] \in {"exited", "sleeping", "checking"}
    /\ monitorpc' = "idle"
    /\ UNCHANGED <<errors, error_counts, calls, lastCall, task, processed_results,
                   failed_files, batch_start, pfpc, handles, errorOwner, file_list,
                   mappings, batch_size, max_workers, parser, mainpc, is_monitoring,
                   monitor_thread, loops>>

\* the effect of a step of loop thread t
LoopStep(t, pc) ==
    /\ loops' = [loops EXCEPT ![t] = pc]
    /\ UNCHANGED <<errors, error_counts, calls, lastCall, task, processed_results,
                   failed_files, batch_start, pfpc, handles, errorOwner, file_list,
                   mappings, batch_size, max_workers, parser, mainpc, is_monitoring,
                   monitor_thread, monitorpc>>

\* while self.is_monitoring:
LoopTest(t) ==
    /\ loops[t] = "test"
    /\ LoopStep(t, IF is_monitoring THEN "checking" ELSE "exited")

\* _check_for_changes and _process_changes have run, or have raised
LoopCheck(t) ==
    /\ loops[t] = "checking"
    /\ LoopStep(t, "sleeping")

\* time.sleep(check_interval) or time.sleep(retry_interval) is over
LoopWake(t) ==
    /\ loops[t] = "sleeping"
    /\ LoopStep(t, "test")

\* a service that has been constructed
InitMonitor == InitCell

NextMonitor ==
    \/ StartMonitoring
    \/ StopMonitoring
    \/ JoinEnds
    \/ \E t \in 1..Len(loops) : LoopTest(t)
    \/ \E t \in 1..Len(loops) : LoopCheck(t)
    \/ \E t \in 1..Len(loops) : LoopWake(t)

SpecMonitor == InitMonitor /\ [][NextMonitor]_vars

-----------------------------------------------------------------------------
(* Properties *)

PresentKinds == {"str", "num", "bool", "datetime"}

IsResult(v) == v = NaN \/ v.kind \in PresentKinds

Finished(i) == task[i].pc = "returned"

\* C1 (Totality): once extract_from_file has returned, the record holds an
\* entry, a value or the missing marker, for exactly the field names of the
\* mapping table; so does every record process_files collected.
C1_Totality ==
    /\ \A i \in Tasks :
          Finished(i) =>
             /\ DOMAIN task[i].extracted_data = FieldNames(mappings)
             /\ \A f \in FieldNames(mappings) : IsResult(task[i].extracted_data[f])
    /\ \A k \in 1..Len(processed_results) :
          DOMAIN processed_results[k].data = FieldNames(mappings)

\* a returned record that mixes found values and missing markers
C1_Witness ==
    \E i \in Tasks :
        /\ Finished(i)
        /\ \E f, g \in DOMAIN task[i].extracted_data :
              task[i].extracted_data[f] = NaN /\ task[i].extracted_data[g] # NaN

\* C2 (Classification closure): a call of _extract_cell_value or of
\* process_cell_value returns a value or the missing marker, no exception
\* leaves it, and every diagnostic recorded has one of the nine categories.
C2_ClassificationClosure ==
    lastCall.op \in {"extract_cell_value", "process_cell_value"} =>
        /\ ~lastCall.raised
        /\ IsResult(lastCall.value)
        /\ \A k \in 1..Len(errors) : errors[k].category \in ErrorCategory
        /\ DOMAIN error_counts = ErrorCategory

Occurrences(file_path) == Cardinality({i \in Tasks : file_list[i] = file_path})

Records(file_path) ==
    Cardinality({k \in 1..Len(processed_results) :
                    processed_results[k].file_path = file_path})

Failures(file_path) ==
    Cardinality({k \in 1..Len(failed_files) : failed_files[k].file_info = file_path})

\* process_files or one of its workers can take a step
CanStep ==
    \/ ENABLED SubmitBatch
    \/ \E i \in Tasks : ENABLED StartTask(i)
    \/ \E i \in Tasks : task[i].pc = "running"
    \/ \E i \in Tasks : ENABLED Collect(i)
    \/ ENABLED NextBatch
    \/ ENABLED GenerateSummary

\* C3 (Batch resilience): process_files never raises and never gets stuck
\* before it returns; when it returns there is one record for every workbook
\* that opened and one failed-file entry for every workbook that did not, so
\* records + failed entries = n.
C3_BatchResilience ==
    /\ pfpc \in {"batch", "collect", "returned"}
    /\ pfpc # "returned" => CanStep
    /\ pfpc = "returned" =>
          /\ Len(processed_results) + Len(failed_files) = Len(file_list)
          /\ \A p \in FilePaths :
                /\ Records(p) = IF Workbook(p).opens THEN Occurrences(p) ELSE 0
                /\ Failures(p) = IF Workbook(p).opens THEN 0 ELSE Occurrences(p)

\* a batch that returned although its first workbook could not be opened and
\* a later one could
C3_Witness ==
    /\ pfpc = "returned"
    /\ Len(file_list) >= 2
    /\ ~Workbook(file_list[1]).opens
    /\ Workbook(file_list[2]).opens
    /\ Len(failed_files) >= 1
    /\ Len(processed_results) >= 1

\* what C4 compares of an error summary: the total, the per-category counts
\* and the messages
SummaryDiagnostics(summary) ==
    IF summary.total_errors = 0 THEN <<>> ELSE summary.detailed_errors

SummaryContent(summary) ==
    [total |-> summary.total_errors,
     counts |-> [c \in ErrorCategory |->
                    Cardinality({k \in 1..Len(SummaryDiagnostics(summary)) :
                                    SummaryDiagnostics(summary)[k].category = c})],
     messages |-> [k \in 1..Len(SummaryDiagnostics(summary)) |->
                      SummaryDiagnostics(summary)[k].error_message]]

\* C4 (Idempotence): two runs of extract_from_file on the same extractor, one
\* after the other (one worker, or groups of one), on the same workbook give
\* records with the same values and the same diagnostic content.
C4_Idempotence ==
    \A j, k \in 1..Len(processed_results) :
        (/\ j < k
         /\ processed_results[j].file_path = processed_results[k].file_path
         /\ (max_workers = 1 \/ batch_size = 1))
        => /\ processed_results[j].data = processed_results[k].data
           /\ SummaryContent(processed_results[j].metadata.error_summary)
                = SummaryContent(processed_results[k].metadata.error_summary)

\* C5 (Private accumulator): the diagnostics of the error summary attached to
\* a workbook's record were all logged while resolving that workbook.
C5_PrivateAccumulator ==
    \A i \in Tasks :
        Finished(i) =>
            \A k \in 1..task[i].metadata.error_summary.total_errors :
                errorOwner[k] = i

\* C6 (Handle release): no workbook handle is open once the worker that
\* opened it has left extract_from_file.
C6_HandleRelease ==
    \A i \in Tasks : task[i].pc \in {"returned", "raised"} => i \notin handles

\* the last direct call appended one diagnostic and raised one counter, the
\* counter of that diagnostic's category, by one
RecordedOne ==
    /\ Len(errors) = Len(lastCall.before.errors) + 1
    /\ SubSeq(errors, 1, Len(errors) - 1) = lastCall.before.errors
    /\ error_counts = [lastCall.before.error_counts
                          EXCEPT ![errors[Len(errors)].category] = @ + 1]

RecordedNothing ==
    /\ errors = lastCall.before.errors
    /\ error_counts = lastCall.before.error_counts

\* a direct call of a handle_* method or of process_cell_value that returned
ClassifierCall ==
    lastCall.op \notin {"none", "extract_cell_value"} /\ ~lastCall.raised

\* the null-sentinel texts, as the specification lists them
NullSentinels ==
    { <<"n","/","a">>, <<"n","a">>, <<"n","u","l","l">>, <<"n","o","n","e">>, <<>>,
      <<"-">>, <<"t","b","d">>, <<"t","b","a">> }

\* the seven formula-error codes, as the specification lists them
FormulaCodes ==
    { <<"#","R","E","F","!">>, <<"#","V","A","L","U","E","!">>,
      <<"#","D","I","V","/","0","!">>, <<"#","N","A","M","E","?">>, <<"#","N","/","A">>,
      <<"#","N","U","L","L","!">>, <<"#","N","U","M","!">> }

HasFormulaCode(text) == \E code \in FormulaCodes : Contains(text, code)

\* the last call classified its input as EmptyValue without being asked to
\* treat it as an error
SilentEmptyCall ==
    \/ lastCall.op = "handle_empty_value" /\ ~lastCall.treat_as_error
    \/ /\ lastCall.op = "process_cell_value"
       /\ \/ lastCall.input.kind \in {"none", "nan", "inf"}
          \/ /\ lastCall.input.kind = "str"
             /\ ~HasFormulaCode(lastCall.input.val)
             /\ Strip(Lower(lastCall.input.val)) \in NullSentinels

RECURSIVE Pow(_, _)
Pow(b, k) == IF k = 0 THEN 1 ELSE b * Pow(b, k - 1)

RECURSIVE PlaceSum(_, _, _)
PlaceSum(digitOf, s, b) ==
    IF s = <<>> THEN 0
    ELSE digitOf[Head(s)] * Pow(b, Len(s) - 1) + PlaceSum(digitOf, Tail(s), b)

LetterValue == [c \in Range(UC) |-> IndexIn(UC, c)]

DigitValue == [c \in Range(DIGITS) |-> IndexIn(DIGITS, c) - 1]

Base26(letters) == PlaceSum(LetterValue, letters, 26)

Decimal(digits) == PlaceSum(DigitValue, digits, 10)

\* the address of the last call with `$` removed and upper-cased
CleanAddress == Upper(SelectSeq(lastCall.cell_address, LAMBDA c : c # "$"))

LettersOf(a) == SelectSeq(a, LAMBDA c : c \in Range(UC))

DigitsOf(a) == SelectSeq(a, LAMBDA c : c \in Range(DIGITS))

\* column letters followed by a row number, and nothing else
WellFormed(a) ==
    /\ LettersOf(a) # <<>>
    /\ DigitsOf(a) # <<>>
    /\ a = LettersOf(a) \o DigitsOf(a)

\* the last call resolved a well-formed address on an existing sheet of the
\* .xlsb workbook
KindALookup ==
    /\ lastCall.op = "extract_cell_value"
    /\ Workbook(lastCall.file_path).ext = "xlsb"
    /\ \E k \in 1..Len(Workbook(lastCall.file_path).sheets) :
          Workbook(lastCall.file_path).sheets[k] = lastCall.sheet_name
    /\ WellFormed(CleanAddress)

ClaimedRow == Decimal(DigitsOf(CleanAddress)) - 1

ClaimedCol == Base26(LettersOf(CleanAddress)) - 1

SheetCells == Flatten(Workbook(lastCall.file_path).rows[lastCall.sheet_name])

AtClaimed == {i \in 1..Len(SheetCells) :
                 SheetCells[i].r = ClaimedRow /\ SheetCells[i].c = ClaimedCol}

Readable == lastCall.sheet_name \notin Workbook(lastCall.file_path).unreadable

\* C8 (Coordinate translation, kind A): for an address of column letters L
\* and row number n the resolver searches the cell with row n - 1 and column
\* base26(L) - 1: D6 at (5,3), AA6 at (5,26); and it reports CellNotFound
\* exactly when the sheet enumerates no cell there.
C8_CoordinateTranslation ==
    KindALookup =>
        /\ lastCall.target = <<ClaimedRow, ClaimedCol>>
        /\ lastCall.cell_address = A_D6 => lastCall.target = <<5, 3>>
        /\ lastCall.cell_address = A_AA6 => lastCall.target = <<5, 26>>
        /\ Readable =>
              (AtClaimed = {} <=>
                  /\ Len(errors) = Len(lastCall.before.errors) + 1
                  /\ errors[Len(errors)].category = "cell_not_found")

\* a three-letter column was resolved and its cell found
C8_Witness ==
    /\ KindALookup
    /\ lastCall.cell_address = A_ABC9
    /\ lastCall.target = <<8, 730>>
    /\ lastCall.value = Num(0)

\* C9 (Successful lookup, kind A): when the first cell the row iterator
\* yields at the translated coordinates holds a finite number v, resolving
\* the address, with or without `$`, returns v and records no diagnostic.
C9_SuccessfulLookup ==
    (KindALookup /\ Readable) =>
        \A i \in AtClaimed :
            (/\ \A j \in AtClaimed : i <= j
             /\ SheetCells[i].v.kind = "num")
            => /\ lastCall.value = SheetCells[i].v
               /\ RecordedNothing

\* $G$6 was resolved to 154, the first of the two cells the sheet
\* enumerates at (5,6), on a handler that already held a diagnostic
C9_Witness ==
    /\ KindALookup
    /\ lastCall.cell_address = A_G6abs
    /\ lastCall.value = Num(154)
    /\ Cardinality(AtClaimed) = 2
    /\ Len(errors) = 1

\* C10 (Formula-error normalization): for a text that contains one of the
\* seven codes anywhere, process_cell_value returns the missing marker and
\* records one diagnostic, of category FormulaError.
C10_FormulaErrorNormalization ==
    (/\ lastCall.op = "process_cell_value"
     /\ lastCall.input.kind = "str"
     /\ HasFormulaCode(lastCall.input.val))
    => /\ lastCall.value = NaN
       /\ RecordedOne
       /\ errors[Len(errors)].category = "formula_error"

\* a code in the middle of a longer text was classified
C10_Witness ==
    /\ lastCall.op = "process_cell_value"
    /\ lastCall.input = Str(<<"a"," ">> \o T_DIV0 \o <<" ","b">>)
    /\ lastCall.value = NaN
    /\ errors[Len(errors)].category = "formula_error"

\* the text trimmed and then lower-cased, as the specification orders it
TrimmedLower(text) == Lower(Strip(text))

\* C11 (Null-sentinel normalization): for a text that, trimmed and
\* lower-cased, is one of n/a, na, null, none, the empty text, -, tbd, tba,
\* process_cell_value returns the missing marker and not the text, and
\* records no diagnostic of another category (EmptyValue is silent).
C11_NullSentinelNormalization ==
    (/\ lastCall.op = "process_cell_value"
     /\ lastCall.input.kind = "str"
     /\ TrimmedLower(lastCall.input.val) \in NullSentinels)
    => /\ ~lastCall.raised
       /\ lastCall.value = NaN
       /\ lastCall.value # Str(Strip(lastCall.input.val))
       /\ RecordedNothing

\* a padded, mixed-case sentinel was classified
C11_Witness ==
    /\ lastCall.op = "process_cell_value"
    /\ lastCall.input \in {Str(<<" ","N","/","A"," ">>), Str(<<"T","B","D">>),
                           Str(<<"N","u","l","l">>)}
    /\ lastCall.value = NaN

\* a number that is neither NaN nor infinite
FiniteNumber(v) == v.kind \in {"num", "bigint"}

\* C12 (Value normalization): process_cell_value returns a text that is no
\* sentinel and holds no error code trimmed; a finite number, 0 included,
\* unchanged; the missing marker, silently, for NaN and for an infinite
\* number; a boolean or a datetime unchanged; and for a value of another type
\* its string form, where it has one.
C12_ValueNormalization ==
    lastCall.op = "process_cell_value" =>
        /\ (/\ lastCall.input.kind = "str"
            /\ ~HasFormulaCode(lastCall.input.val)
            /\ TrimmedLower(lastCall.input.val) \notin NullSentinels)
           => /\ ~lastCall.raised
              /\ lastCall.value = Str(Strip(lastCall.input.val))
        /\ FiniteNumber(lastCall.input)
           => /\ ~lastCall.raised
              /\ lastCall.value = lastCall.input
        /\ lastCall.input.kind \in {"nan", "inf"}
           => /\ ~lastCall.raised
              /\ lastCall.value = NaN
              /\ RecordedNothing
        /\ lastCall.input.kind \in {"bool", "datetime"}
           => /\ ~lastCall.raised
              /\ lastCall.value = lastCall.input
        /\ (lastCall.input.kind = "other" /\ ~lastCall.input.raises)
           => /\ ~lastCall.raised
              /\ lastCall.value = StrOf(lastCall.input)

\* the diagnostics logged on behalf of task i
DiagnosticsOf(i) == {k \in 1..Len(errors) : errorOwner[k] = i}

\* C13 (Whole-file failure): when process_files has returned, a workbook that
\* could not be opened has one failed-file entry per submission, one
\* diagnostic of category FileAccessError, and no per-field diagnostic.
C13_WholeFileFailure ==
    pfpc = "returned" =>
        \A i \in Tasks :
            ~Workbook(file_list[i]).opens =>
                /\ Failures(file_list[i]) = Occurrences(file_list[i])
                /\ Cardinality({k \in DiagnosticsOf(i) :
                                   errors[k].category = "file_access_error"}) = 1
                /\ \A k \in DiagnosticsOf(i) : errors[k].category = "file_access_error"

\* the fields of a record that hold the missing marker
MissingFields(data) == {f \in DOMAIN data : data[f] = NaN}

\* C14 (Summary counts): in a returned record's metadata, successful is the
\* number of fields holding a value, failed the number of fields holding the
\* missing marker, and successful + failed = total_fields = the size of the
\* mapping table.
C14_SummaryCounts ==
    \A i \in Tasks :
        Finished(i) =>
            /\ task[i].metadata.total_fields = Len(mappings)
            /\ task[i].metadata.successful + task[i].metadata.failed
                  = task[i].metadata.total_fields
            /\ task[i].metadata.failed
                  = Cardinality(MissingFields(task[i].extracted_data))
            /\ task[i].metadata.successful
                  = Cardinality(DOMAIN task[i].extracted_data
                                  \ MissingFields(task[i].extracted_data))

\* load_mappings has returned its table
Loaded == parser.pc = "returned"

\* the row of the reference sheet a loaded mapping was built from
SourceRow(m) == parser.reference_file.rows[m.source_row]

\* a text cell that is empty, or blank once trimmed
BlankText(v) == v = NaN \/ Strip(v.val) = <<>>

\* the same for a category or a sheet name, which the model keeps whole
BlankName(v) == v = NaN \/ v.val = " "

\* one of the four required fields of the row is blank
HasBlankField(row) ==
    \/ BlankName(row.category)
    \/ BlankText(row.description)
    \/ BlankName(row.sheet_name)
    \/ BlankText(row.cell_address)

\* C15 (Loader row filter): load_mappings skips every row with a blank
\* required field (category, description, sheet name, cell address), and
\* every mapping it produces has the four fields non-blank.
C15_LoaderRowFilter ==
    Loaded =>
        \A f \in DOMAIN parser.mappings :
            /\ ~HasBlankField(SourceRow(parser.mappings[f]))
            /\ parser.mappings[f].category # " "
            /\ Strip(parser.mappings[f].description) # <<>>
            /\ parser.mappings[f].sheet_name # " "
            /\ Strip(parser.mappings[f].cell_address) # <<>>

\* the source text of a loaded mapping's address
SourceAddress(m) == StrCell(SourceRow(m).cell_address)

CountChar(text, c) == Cardinality({i \in 1..Len(text) : text[i] = c})

\* C16 as stated: every stored cell_address is the source address with every
\* `$` removed and the letters upper-cased; no stored address holds a `$`.
C16_LoaderAddressCleaning ==
    Loaded =>
        \A f \in DOMAIN parser.mappings :
            /\ parser.mappings[f].cell_address
                 = Upper(SelectSeq(SourceAddress(parser.mappings[f]), LAMBDA c : c # "$"))
            /\ CountChar(parser.mappings[f].cell_address, "$") = 0

\* C16 (amended): every stored cell_address is the source address without its
\* leading and trailing whitespace and with the letters upper-cased; its `$`
\* characters are kept.
C16_LoaderAddressTrimmedUpper ==
    Loaded =>
        \A f \in DOMAIN parser.mappings :
            /\ Lower(parser.mappings[f].cell_address)
                 = Lower(Strip(SourceAddress(parser.mappings[f])))
            /\ \A i \in 1..Len(parser.mappings[f].cell_address) :
                  parser.mappings[f].cell_address[i] \notin Range(LC)
            /\ CountChar(parser.mappings[f].cell_address, "$")
                 = CountChar(SourceAddress(parser.mappings[f]), "$")

\* the lower-case absolute address $g$6 was loaded as $G$6, and a padded
\* address without its padding
C16_Witness ==
    /\ Loaded
    /\ \E f, g \in DOMAIN parser.mappings :
          /\ SourceAddress(parser.mappings[f]) = <<"$","g","$","6">>
          /\ parser.mappings[f].cell_address = A_G6abs
          /\ SourceAddress(parser.mappings[g]) = <<" ","b","1"," ">>
          /\ parser.mappings[g].cell_address = <<"B","1">>

IsAlnum(c) == c \in Range(UC) \cup Range(LC) \cup Range(DIGITS)

\* s without its leading characters that are not alphanumeric
RECURSIVE DropRun(_)
DropRun(s) == IF s = <<>> \/ IsAlnum(Head(s)) THEN s ELSE DropRun(Tail(s))

\* the description upper-cased, every maximal run of characters that are not
\* alphanumeric replaced by one underscore
RECURSIVE RunsToUnderscore(_)
RunsToUnderscore(s) ==
    IF s = <<>> THEN <<>>
    ELSE IF IsAlnum(Head(s)) THEN <<UpperChar(Head(s))>> \o RunsToUnderscore(Tail(s))
    ELSE <<"_">> \o RunsToUnderscore(DropRun(s))

\* C17 (Field-name derivation): the field_name of a loaded mapping is its
\* description upper-cased with every maximal run of non-alphanumeric
\* characters replaced by a single underscore; it holds only A-Z, 0-9 and
\* single underscores.
C17_FieldNameDerivation ==
    Loaded =>
        \A f \in DOMAIN parser.mappings :
            /\ parser.mappings[f].field_name
                 = RunsToUnderscore(parser.mappings[f].description)
            /\ \A i \in 1..Len(f) : f[i] \in Range(UC) \cup Range(DIGITS) \cup {"_"}
            /\ ~Contains(f, <<"_", "_">>)

\* the reference file cannot be opened or has no sheet
\* "UW Model - Cell Reference Table"
LoadFails == ~parser.reference_file.opens \/ ~parser.reference_file.has_sheet

\* C18 (Loader failure is fatal): when the reference file cannot be opened or
\* the sheet is absent, load_mappings does not return a table but raises, main
\* raises with it, and no workbook is resolved.
C18_LoaderFailureFatal ==
    LoadFails =>
        /\ parser.pc \in {"start", "raised"}
        /\ parser.pc = "raised" => mainpc \in {"load", "raised"} /\ (mainpc = "load" => ENABLED MainRaise)
        /\ parser.mappings = <<>>
        /\ mappings = <<>>
        /\ pfpc = "not called"
        /\ \A i \in Tasks : task[i].pc = "pending"
        /\ handles = {}
        /\ processed_results = <<>>
        /\ failed_files = <<>>

\* main has raised because the reference file has no such sheet
C18_Witness ==
    /\ parser.reference_file.opens
    /\ ~parser.reference_file.has_sheet
    /\ parser.pc = "raised"
    /\ mainpc = "raised"

\* the per-category breakdown of a report; the report of a handler without
\* diagnostics calls it "categories"
Breakdown(report) ==
    IF "error_breakdown_by_category" \in DOMAIN report
    THEN report.error_breakdown_by_category ELSE report.categories

\* the most_common_errors of a report; the report of a handler without
\* diagnostics has no such list
MostCommon(report) ==
    IF "most_common_errors" \in DOMAIN report THEN report.most_common_errors ELSE <<>>

RECURSIVE SumOfCounts(_, _)
SumOfCounts(breakdown, cats) ==
    IF cats = {} THEN 0
    ELSE LET c == CHOOSE x \in cats : TRUE
         IN  breakdown[c].count + SumOfCounts(breakdown, cats \ {c})

\* the diagnostics recorded with a category and a message
Recorded(category, message) ==
    {k \in 1..Len(errors) :
        errors[k].category = category /\ errors[k].error_message = message}

\* C19 (Aggregate report): get_error_summary reports total_errors = the
\* number of recorded diagnostics, a per-category breakdown whose counts sum
\* to total_errors, and at most 10 most_common_errors with distinct
\* (category, message) pairs, in non-increasing order of count, each count
\* being the number of diagnostics with that pair.
C19_AggregateReport ==
    lastCall.op = "get_error_summary" =>
        /\ lastCall.value.total_errors = Len(errors)
        /\ SumOfCounts(Breakdown(lastCall.value), DOMAIN Breakdown(lastCall.value))
              = lastCall.value.total_errors
        /\ Len(MostCommon(lastCall.value)) <= 10
        /\ \A i, j \in 1..Len(MostCommon(lastCall.value)) :
              /\ i < j => MostCommon(lastCall.value)[i].count
                             >= MostCommon(lastCall.value)[j].count
              /\ i # j => \/ MostCommon(lastCall.value)[i].category
                                # MostCommon(lastCall.value)[j].category
                          \/ MostCommon(lastCall.value)[i].message
                                # MostCommon(lastCall.value)[j].message
        /\ \A i \in 1..Len(MostCommon(lastCall.value)) :
              MostCommon(lastCall.value)[i].count
                = Cardinality(Recorded(MostCommon(lastCall.value)[i].category,
                                       MostCommon(lastCall.value)[i].message))

\* a report cut to ten pairs out of eleven recorded, led by a pair that was
\* not the first to be recorded
C19_Witness ==
    /\ lastCall.op = "get_error_summary"
    /\ DistinctPairs = 11
    /\ Len(MostCommon(lastCall.value)) = 10
    /\ MostCommon(lastCall.value)[1].count = 2
    /\ MostCommon(lastCall.value)[1].category # errors[1].category

\* the value of a mapping entry resolved on its own, on a handler that has
\* recorded nothing
Isolated(file_path, mapping) ==
    extract_cell_value(NewHandler, Workbook(file_path), mapping.sheet_name,
                       mapping.cell_address, mapping.field_name).value

\* C20 (Field independence): the value a worker stores for a field is the
\* value of that field's own (sheet name, cell address) in the workbook,
\* whatever the order of the table, whatever failed before it and whatever
\* the other workers recorded meanwhile.
C20_FieldIndependence ==
    \A i \in Tasks :
        \A k \in 1..Len(mappings) :
            mappings[k].field_name \in DOMAIN task[i].extracted_data =>
                task[i].extracted_data[mappings[k].field_name]
                  = Isolated(file_list[i], mappings[k])

\* UNITS was resolved to 154 after NOI had failed, and in the other table
\* order the same two values were stored
C20_Witness ==
    \E i \in Tasks :
        /\ Finished(i)
        /\ file_list[i] = "a.xlsb"
        /\ mappings = TABLE_4
        /\ task[i].extracted_data["NOI"] = NaN
        /\ task[i].extracted_data["UNITS"] = Num(154)
        /\ Len(errors) >= 1

\* the fixed-size group a workbook of the list belongs to
GroupOf(i) == (i - 1) \div batch_size

\* the workbooks whose resolution has begun and has not ended
InProgress == {i \in Tasks : task[i].pc = "running"}

Smaller(a, b) == IF a < b THEN a ELSE b

\* C21 (Bounded parallelism): during process_files at most
\* min(max_workers, batch_size) workbook resolutions are in progress, and a
\* workbook of a later group is not handed to a pool before every workbook of
\* all earlier groups has finished.
C21_BoundedParallelism ==
    /\ Cardinality(InProgress) <= Smaller(max_workers, batch_size)
    /\ \A i, j \in Tasks :
           (GroupOf(j) < GroupOf(i) /\ task[i].pc # "pending") =>
               task[j].pc \in {"returned", "raised"}

\* a workbook of the second group is being resolved by a pool that has a
\* free worker, after the first group's workbook has finished
C21_Witness ==
    \E i \in Tasks :
        /\ GroupOf(i) = 1
        /\ task[i].pc = "running"
        /\ max_workers > batch_size
        /\ task[1].pc = "returned"

\* C22 (Mapping table read-only): once the extractor has been given the table,
\* no step of process_files, extract_from_file or _extract_cell_value adds,
\* removes or changes an entry of the extractor's table or a field of a
\* loaded CellMapping.
C22_MappingTableReadOnly ==
    [][mainpc = "processing" =>
          /\ mappings' = mappings
          /\ parser'.mappings = parser.mappings
          /\ parser'.order = parser.order]_vars

\* a workbook was resolved against a loaded table of two entries, one of them
\* with an absolute address
C22_Witness ==
    /\ mainpc = "processing"
    /\ Len(mappings) = 2
    /\ \E k \in 1..2 : mappings[k].cell_address = A_G6abs
    /\ \E i \in Tasks : task[i].pc = "returned"

\* the text matches ^[A-Z]+[0-9]+$, where $ also stands before a final newline
MatchesPattern(a) ==
    \/ WellFormed(a)
    \/ a # <<>> /\ a[Len(a)] = "\n" /\ WellFormed(SubSeq(a, 1, Len(a) - 1))

\* the last call resolved, on an existing sheet, an address that is malformed
\* once `$` is removed and it is upper-cased
MalformedLookup ==
    /\ lastCall.op = "extract_cell_value"
    /\ \E k \in 1..Len(Workbook(lastCall.file_path).sheets) :
          Workbook(lastCall.file_path).sheets[k] = lastCall.sheet_name
    /\ ~MatchesPattern(CleanAddress)

\* C23 (Malformed addresses): for both container kinds, resolving a malformed
\* address on an existing sheet returns the missing marker and records exactly
\* one diagnostic, of category InvalidCellAddress.
C23_MalformedAddress ==
    MalformedLookup =>
        /\ lastCall.value = NaN
        /\ RecordedOne
        /\ errors[Len(errors)].category = "invalid_cell_address"

\* the last call resolved an address on a sheet name that is not, letter for
\* letter, in the workbook's sheet list
MissingSheetLookup ==
    /\ lastCall.op = "extract_cell_value"
    /\ \A k \in 1..Len(Workbook(lastCall.file_path).sheets) :
          Workbook(lastCall.file_path).sheets[k] # lastCall.sheet_name

\* C24 (Sheet check first, case-sensitive): for both container kinds, when
\* the sheet name is not exactly in the workbook's sheet list the resolver
\* returns the missing marker with one MissingSheet diagnostic, whatever the
\* address is, so a missing sheet with a malformed address is MissingSheet.
C24_SheetCheckFirst ==
    MissingSheetLookup =>
        /\ lastCall.value = NaN
        /\ RecordedOne
        /\ errors[Len(errors)].category = "missing_sheet"

\* a malformed address on the sheet name "summary" of the .xlsx workbook,
\* whose sheet is "Summary", was classified MissingSheet
C24_Witness ==
    /\ MissingSheetLookup
    /\ lastCall.file_path = "b.xlsx"
    /\ lastCall.sheet_name = "summary"
    /\ lastCall.cell_address = A_6D
    /\ errors[Len(errors)].category = "missing_sheet"

\* the rows of the sheet that the scan counted: those that hold a cell
RowsScanned ==
    Cardinality({k \in 1..Len(Workbook(lastCall.file_path).rows[lastCall.sheet_name]) :
                    Workbook(lastCall.file_path).rows[lastCall.sheet_name][k] # <<>>})

\* C25 (Absent cell, kind A): when the sheet exists, the address is
\* well-formed and the scan of the sheet's rows ends without a cell at the
\* translated coordinates, the resolver returns the missing marker and
\* records exactly one diagnostic, of category CellNotFound, whose context
\* holds the rows scanned and the target column + 1.
C25_AbsentCell ==
    (KindALookup /\ Readable /\ AtClaimed = {}) =>
        /\ lastCall.value = NaN
        /\ RecordedOne
        /\ errors[Len(errors)].category = "cell_not_found"
        /\ errors[Len(errors)].sheet_size = <<RowsScanned, ClaimedCol + 1>>

\* ZZ99 was looked up on the sheet of four rows, one of them empty: three
\* rows scanned, column 702
C25_Witness ==
    /\ KindALookup
    /\ Readable
    /\ AtClaimed = {}
    /\ lastCall.cell_address = <<"Z","Z","9","9">>
    /\ errors[Len(errors)].sheet_size = <<3, 702>>

\* the rows of the reference sheet that load_mappings turns into an entry
AcceptedRows ==
    {k \in 1..Len(parser.reference_file.rows) :
        /\ NotNa(parser.reference_file.rows[k].description)
        /\ NotNa(parser.reference_file.rows[k].cell_address)}

\* the field name derived from row k
DerivedName(k) == clean_field_name(StrCell(parser.reference_file.rows[k].description))

\* C26 (Field-name collision): the loaded table has exactly one entry for
\* each field name derived from an accepted row, that entry is the one of the
\* last row deriving the name, and the size of the table is the number of
\* distinct derived names.
C26_FieldNameCollision ==
    Loaded =>
        /\ DOMAIN parser.mappings = {DerivedName(k) : k \in AcceptedRows}
        /\ Len(parser.order) = Cardinality({DerivedName(k) : k \in AcceptedRows})
        /\ \A k \in AcceptedRows :
              (\A j \in AcceptedRows : DerivedName(j) = DerivedName(k) => j <= k) =>
                  /\ parser.mappings[DerivedName(k)].source_row = k
                  /\ parser.mappings[DerivedName(k)]
                       = CellMapping(parser.reference_file.rows[k], k)

\* two rows described "NOI (Yr 1)", on sheets "Missing" and "Summary", were
\* loaded into one entry, the second row's
C26_Witness ==
    /\ Loaded
    /\ Cardinality(AcceptedRows) = 2
    /\ Len(parser.order) = 1
    /\ parser.reference_file.rows[1].sheet_name = Str("Missing")
    /\ parser.mappings[DerivedName(2)].sheet_name = "Summary"

\* the recommendation keyed to a category, for the categories that have one
RecommendationOf ==
    [c \in {"missing_sheet", "formula_error", "invalid_cell_address", "empty_value",
            "data_type_error"} |->
        CASE c = "missing_sheet" -> "Missing Sheets"
          [] c = "formula_error" -> "Formula Errors"
          [] c = "invalid_cell_address" -> "Invalid Addresses"
          [] c = "empty_value" -> "Many Empty Values"
          [] OTHER -> "Data Type Issues"]

\* the recommendations of a report; the report of a handler without
\* diagnostics has no such list
Recommendations(report) ==
    IF "recommendations" \in DOMAIN report THEN report.recommendations ELSE <<>>

Recommended(c) ==
    /\ c \in DOMAIN RecommendationOf
    /\ \E k \in 1..Len(Recommendations(lastCall.value)) :
          Recommendations(lastCall.value)[k] = RecommendationOf[c]

\* C27 as stated: the error summary holds the recommendation keyed to a
\* failure category exactly when that category's count is not zero.
C27_RecommendationsFollowNonzero ==
    lastCall.op = "get_error_summary" =>
        \A c \in ErrorCategory : error_counts[c] > 0 <=> Recommended(c)

\* the count above which a category is recommended on
Threshold(c) == IF c = "empty_value" THEN 5 ELSE 0

\* C27, amended: the summary of a handler with diagnostics lists, in this
\* order, the recommendations of MissingSheet, FormulaError,
\* InvalidCellAddress and DataTypeError when their count is not zero, that of
\* EmptyValue when its count is above 5, and a closing general
\* recommendation; CellNotFound, FileAccessError, ParsingError and
\* UnknownError have no recommendation of their own.
C27_RecommendationsAboveThreshold ==
    lastCall.op = "get_error_summary" =>
        /\ \A c \in ErrorCategory :
              Recommended(c) <=>
                  (c \in DOMAIN RecommendationOf /\ error_counts[c] > Threshold(c))
        /\ \A k \in 1..Len(Recommendations(lastCall.value)) :
              IF k = Len(Recommendations(lastCall.value))
              THEN Recommendations(lastCall.value)[k] = "Review the detailed error list"
              ELSE \E c \in DOMAIN RecommendationOf :
                      Recommendations(lastCall.value)[k] = RecommendationOf[c]
        /\ Len(errors) > 0 <=> Len(Recommendations(lastCall.value)) > 0
        /\ \A j, k \in 1..Len(Recommendations(lastCall.value)) :
              j # k => Recommendations(lastCall.value)[j]
                          # Recommendations(lastCall.value)[k]

\* a summary of six empty values, a missing sheet, a malformed address and an
\* absent cell: three keyed recommendations and the general one
C27_Witness ==
    /\ lastCall.op = "get_error_summary"
    /\ error_counts["empty_value"] = 6
    /\ error_counts["cell_not_found"] = 1
    /\ Recommendations(lastCall.value)
         = <<"Missing Sheets", "Invalid Addresses", "Many Empty Values",
             "Review the detailed error list">>

\* the last call classified a text that contains a formula-error code
CodeInText ==
    /\ lastCall.op = "process_cell_value"
    /\ lastCall.input.kind = "str"
    /\ HasFormulaCode(lastCall.input.val)

\* C28 (Classification priority): a text that contains a formula-error code
\* is classified FormulaError, with a code the text contains, and never
\* EmptyValue, also when the text without its `#` is a null sentinel.
C28_ClassificationPriority ==
    CodeInText =>
        /\ ~lastCall.raised
        /\ Len(errors) = Len(lastCall.before.errors) + 1
        /\ errors[Len(errors)].category # "empty_value"
        /\ error_counts["empty_value"] = lastCall.before.error_counts["empty_value"]
        /\ error_counts["formula_error"]
             = lastCall.before.error_counts["formula_error"] + 1
        /\ \E code \in FormulaCodes :
              /\ Contains(lastCall.input.val, code)
              /\ errors[Len(errors)].error_message = <<"Formula error">> \o code

\* "#N/A", whose body "n/a" is a null sentinel, was classified FormulaError
C28_Witness ==
    /\ CodeInText
    /\ lastCall.input = Str(<<"#","N","/","A">>)
    /\ Lower(Tail(lastCall.input.val)) \in NullSentinels
    /\ errors[Len(errors)].category = "formula_error"

RECURSIVE CounterSum(_)
CounterSum(cats) ==
    IF cats = {} THEN 0
    ELSE error_counts[CHOOSE c \in cats : TRUE]
         + CounterSum(cats \ {CHOOSE c \in cats : TRUE})

\* every worker has made all its _log_error calls
AllLogged == \A i \in Tasks : task[i].pc = "append" /\ task[i].todo = <<>>

\* C29 (No lost update): whatever the interleaving of the worker threads
\* that call _log_error on the shared ErrorHandler, once all of them have
\* finished the per-category counters sum to the number of recorded
\* diagnostics.
C29_NoLostUpdate ==
    AllLogged => CounterSum(ErrorCategory) = Len(errors)

\* the _monitor_loop threads that are checking for changes
Checking == {t \in 1..Len(loops) : loops[t] = "checking"}

\* C30 (Single monitor loop): after any sequence of start_monitoring and
\* stop_monitoring calls at most one _monitor_loop thread is checking for
\* changes, also when start_monitoring follows a stop_monitoring whose join
\* timed out while the old loop was sleeping.
C30_SingleMonitorLoop == Cardinality(Checking) <= 1

=============================================================================
